---- MODULE Spec2Model ----
(***************************************************************************)
(* Model of the dispatcher/driver conversation orchestration:              *)
(*   - ConversationState            (backend/agents/conversation_state.py) *)
(*   - the multi-agent worker       (backend/agents/multi_agent_worker.py) *)
(*   - the agents' end_conversation (dispatcher_agent.py, driver_agent.py) *)
(*   - ConversationService (backend/src/services/conversation_service.py)  *)
(*                                                                         *)
(* asyncio runs one coroutine at a time and switches only at an await that *)
(* really suspends (generate_reply, sleep, session.start).  Each worker    *)
(* action below is the code between two such suspension points; the       *)
(* completion of an awaited generate_reply and the resumption of the       *)
(* coroutine are two steps, as they are for the event loop.  The state     *)
(* lock is free at every suspension point of the worker, because the       *)
(* worker never registers a session handle and disconnect_all() therefore  *)
(* never awaits inside the lock.                                           *)
(***************************************************************************)
EXTENDS Integers, Sequences, FiniteSets, TLC

VARIABLES
    state,          \* ConversationState._state (the process-wide singleton)
    aclose_calls,   \* per AgentSession object: number of aclose() calls received
    pc,             \* multi-agent worker entrypoint: position of the coroutine
    turn_count,     \* entrypoint local turn_count
    start_time,     \* entrypoint local start_time
    now,            \* asyncio event loop time, in seconds
    exit_reason,    \* which exit of entrypoint was taken
    calls,          \* number of entrypoint invocations started in this process
    gen_calls,      \* per AgentSession object: number of generate_reply() calls
    signals,        \* per role: end_conversation invocations in the current call
    reply,          \* the generate_reply() call last issued: pending, ok, error
    svc_pc,         \* ConversationService.generate_conversation: position
    max_turns,      \* generate_conversation argument
    turn_num,       \* generate_conversation loop variable
    conversation,   \* generate_conversation local list of ConversationTurn
    llm_calls,      \* number of LLMService.generate_response calls issued
    last_op,        \* direct use of ConversationState: the last operation called
    prev,           \* direct use of ConversationState: _state before that call
    last_raising,   \* direct use: the sessions whose aclose() raised in that call
    last_raised,    \* direct use: whether that call raised to its caller
    last_arg,       \* direct use: the argument of that call, None without one
    last_closed,    \* direct use: the slots whose session the last
                    \* disconnect_all() call has closed so far, in order
    reply_text,     \* the text the session produced for the reply just completed
    first_signal,   \* the driver turn that made the call's first end_conversation
    room_metadata,  \* entrypoint local room_metadata
    attempt,        \* entrypoint local attempt (retry loop variable)
    responses,      \* the list_rooms responses received in this call, in order
    dispatcher_config,  \* entrypoint local dispatcher_config
    driver_config,  \* entrypoint local driver_config
    arg_text,       \* _is_conversation_complete: the argument
    arg_words,      \* the number of words its caller put into the argument
    arg_closing,    \* whether its caller put a closing phrase into it
    verdict,        \* _is_conversation_complete: the value returned
    sa_role,        \* standalone agent worker: whose entrypoint is running
    elapsed,        \* standalone entrypoint local elapsed, in half seconds
    lock_holder,    \* _state["lock"]: the coroutine holding it, or NoHolder
    returned,       \* direct use: the list the last history read returned
    count,          \* direct use: the argument of the last get_last_messages
    context,        \* the last format_conversation_context result (direct use,
                    \* or entrypoint's local conversation_context)
    comparable,     \* direct use: `returned` came from get_messages(), and no
                    \* reset() was called since
    state_dict,     \* direct use: the last get_state_dict result
    api_client,     \* entrypoint local lk_api: none, open or closed
    asyncio_bound,  \* entrypoint local name asyncio (the import of line 50):
                    \* whether it is bound
    conv,            \* per conversation run in this process: position and counters
    task_pc,         \* per task using the state lock: its position
    lock_owner,      \* the task holding the state lock, or "none"
    lock_waiters     \* the tasks waiting for the state lock, oldest first

vars == <<state, aclose_calls, pc, turn_count, start_time, now, exit_reason,
          calls, gen_calls, signals, reply, svc_pc, max_turns, turn_num,
          conversation, llm_calls, last_op, prev, last_raising, last_raised,
          last_arg, last_closed,
          reply_text, first_signal, room_metadata, attempt, responses,
          dispatcher_config, driver_config, arg_text, arg_words, arg_closing, verdict, sa_role,
          elapsed, lock_holder, returned, count, context, comparable, state_dict,
          api_client, asyncio_bound, conv, task_pc, lock_owner, lock_waiters>>

stateVars == <<state, aclose_calls>>
workerVars == <<pc, turn_count, start_time, now, exit_reason, calls,
                gen_calls, signals, reply, reply_text, first_signal>>
serviceVars == <<svc_pc, max_turns, turn_num, conversation, llm_calls>>
harnessVars == <<last_op, prev, last_raising, last_raised, last_arg,
                 last_closed>>
resolverVars == <<room_metadata, attempt, responses, dispatcher_config,
                  driver_config, api_client, asyncio_bound>>
heuristicVars == <<arg_text, arg_words, arg_closing, verdict>>
standaloneVars == <<sa_role, elapsed>>
tenantVars == <<conv>>
taskVars == <<task_pc, lock_owner, lock_waiters>>
readVars == <<count, context, comparable, state_dict>>

----------------------------------------------------------------------------
(* Bounds of the model *)

\* entrypoint invocations in one process (the state singleton outlives a call)
MaxCalls == 2
\* end_conversation tool invocations per agent and call
MaxSignals == 1

(* Program constants *)

max_duration_seconds == 600
PacingDelay == 2

\* Durations, in seconds, that one generate_reply() may take: with the pacing
\* delay a turn takes 100 s or 298 s, so the loop head is reached with
\* exactly max_duration_seconds elapsed, with less and with more.
GenDurations == {98, 296}

None == "None"
Roles == {"dispatcher", "driver"}
\* The conversations run at the same time in one process.
Conversations == {"room_a", "room_b"}
ConvIdle == [pc |-> "idle", turn_count |-> 0, signals |-> 0,
             asyncio_bound |-> FALSE]
\* The tasks of one conversation that use the state lock.
AgentTasks == {"dispatcher_agent", "driver_agent"}
Tasks == {"scheduler"} \cup AgentTasks
\* The two AgentSession objects an entrypoint creates.
Handles == {"dispatcher_session", "driver_session"}

\* No reply text: the awaited generate_reply() has not completed, or its
\* result has been dropped (entrypoint does not bind it).
NoText == <<>>

DispatcherSpeaker == "Tim (Dispatcher)"
DriverSpeaker == "Chris (Driver)"

----------------------------------------------------------------------------
(* ConversationState: every operation is a function of the _state dict *)

InitialState ==
    [concluded |-> FALSE, dispatcher_session |-> None,
     driver_session |-> None, room |-> None, messages |-> <<>>]

\* reset() that forgets to clear the history
Reset_KeepsMessages(s) ==
    [s EXCEPT !.concluded = FALSE, !.dispatcher_session = None,
              !.driver_session = None, !.room = None]

Reset(s) ==
    [s EXCEPT !.concluded = FALSE, !.dispatcher_session = None,
              !.driver_session = None, !.room = None, !.messages = <<>>]

\* set_concluded() that also forgets the session handles
SetConcluded_ForgetsHandles(s, value) ==
    [s EXCEPT !.concluded = value, !.dispatcher_session = None,
              !.driver_session = None]

SetConcluded(s, value) == [s EXCEPT !.concluded = value]

IsConcluded(s) == s.concluded

SetDispatcherSession(s, session) == [s EXCEPT !.dispatcher_session = session]

\* set_driver_session() that stores the session in the dispatcher's slot
SetDriverSession_Swapped(s, session) ==
    [s EXCEPT !.dispatcher_session = session]

SetDriverSession(s, session) == [s EXCEPT !.driver_session = session]

GetDispatcherSession(s) == s.dispatcher_session

GetDriverSession(s) == s.driver_session

SetRoom(s, r) == [s EXCEPT !.room = r]

GetRoom(s) == s.room

\* add_message() that records the message twice
AddMessage_Twice(s, speaker, message) ==
    [s EXCEPT !.messages =
        @ \o << [speaker |-> speaker, message |-> message],
                [speaker |-> speaker, message |-> message] >>]

\* add_message() that puts the new message in front of the history
AddMessage_Prepend(s, speaker, message) ==
    [s EXCEPT !.messages =
        <<[speaker |-> speaker, message |-> message]>> \o @]

\* add_message() that rebuilds the dict around the new history
AddMessage_Rebuild(s, speaker, message) ==
    [InitialState EXCEPT !.messages =
        Append(s.messages, [speaker |-> speaker, message |-> message])]

AddMessage(s, speaker, message) ==
    [s EXCEPT !.messages =
        Append(@, [speaker |-> speaker, message |-> message])]

GetMessages(s) == s.messages

\* A list a history read has handed to its caller: its items, and whether it
\* is the very list object _state["messages"] refers to.
NoList == [aliased |-> FALSE, items |-> <<>>]

\* get_messages() handing out _state["messages"] itself
GetMessagesReturn_NoCopy(s) == [aliased |-> TRUE, items |-> s.messages]

\* get_messages(): list.copy() makes a new list with the same items.
GetMessagesReturn(s) == [aliased |-> FALSE, items |-> GetMessages(s)]

\* list.append() in add_message changes the list object in place: a list
\* handed out earlier shows the new item exactly when it is that object.
AfterAppend(list, speaker, message) ==
    IF list.aliased
    THEN [list EXCEPT !.items =
              Append(@, [speaker |-> speaker, message |-> message])]
    ELSE list

\* reset() binds _state["messages"] to a new empty list: a list handed out
\* earlier keeps its items and is that object no longer.
AfterReset(list) == [list EXCEPT !.aliased = FALSE]

\* get_state_dict(): a summary of the dict, read without the lock.
GetStateDict(s) ==
    [concluded |-> s.concluded,
     has_dispatcher |-> s.dispatcher_session # None,
     has_driver |-> s.driver_session # None,
     has_room |-> s.room # None,
     message_count |-> Len(s.messages)]

\* Python's seq[start:] for any integer start.
SliceFrom(seq, start) ==
    LET first == IF start < 0
                 THEN (IF Len(seq) + start < 0 THEN 0 ELSE Len(seq) + start)
                 ELSE (IF start > Len(seq) THEN Len(seq) ELSE start)
    IN  SubSeq(seq, first + 1, Len(seq))

\* get_last_messages(count): messages[-count:] if messages else [].
GetLastMessages(s, n) ==
    IF s.messages # <<>> THEN SliceFrom(s.messages, 0 - n) ELSE <<>>

\* The characters of the strings recorded in the history: the speakers and
\* texts the worker passes to add_message, and a text of two lines.
Chars(str) ==
    CASE str = "Tim (Dispatcher)" ->
          <<"T", "i", "m", " ", "(", "D", "i", "s", "p", "a", "t", "c",
            "h", "e", "r", ")">>
      [] str = "Chris (Driver)" ->
          <<"C", "h", "r", "i", "s", " ", "(", "D", "r", "i", "v", "e",
            "r", ")">>
      [] str = "Initiated greeting" ->
          <<"I", "n", "i", "t", "i", "a", "t", "e", "d", " ", "g", "r",
            "e", "e", "t", "i", "n", "g">>
      [] str = "Responded to dispatcher" ->
          <<"R", "e", "s", "p", "o", "n", "d", "e", "d", " ", "t", "o",
            " ", "d", "i", "s", "p", "a", "t", "c", "h", "e", "r">>
      [] str = "Responded to driver" ->
          <<"R", "e", "s", "p", "o", "n", "d", "e", "d", " ", "t", "o",
            " ", "d", "r", "i", "v", "e", "r">>
      [] str = "Copy that.\nDock 4." ->
          <<"C", "o", "p", "y", " ", "t", "h", "a", "t", ".", "\n", "D",
            "o", "c", "k", " ", "4", ".">>

NoMessagesText ==
    <<"N", "o", " ", "p", "r", "e", "v", "i", "o", "u", "s", " ", "m", "e",
      "s", "s", "a", "g", "e", "s", " ", "i", "n", " ", "t", "h", "i", "s",
      " ", "c", "o", "n", "v", "e", "r", "s", "a", "t", "i", "o", "n", " ",
      "y", "e", "t", ".">>

ContextHeader ==
    <<"P", "r", "e", "v", "i", "o", "u", "s", " ", "c", "o", "n", "v", "e",
      "r", "s", "a", "t", "i", "o", "n", ":", "\n">>

\* f"- {msg['speaker']}: {msg['message']}\n"
ContextLine(msg) ==
    <<"-", " ">> \o Chars(msg.speaker) \o <<":", " ">> \o Chars(msg.message)
        \o <<"\n">>

\* The lines of messages first..last with the newest message first
RECURSIVE ContextLines_NewestFirst(_, _, _)
ContextLines_NewestFirst(messages, first, last) ==
    IF first > last THEN <<>>
    ELSE ContextLine(messages[last])
             \o ContextLines_NewestFirst(messages, first, last - 1)

\* The for loop of format_conversation_context(): the lines of messages
\* first..last appended to one another in history order. Concatenation is
\* associative, so the run is joined by halves.
RECURSIVE ContextLines(_, _, _)
ContextLines(messages, first, last) ==
    IF first > last THEN <<>>
    ELSE IF first = last THEN ContextLine(messages[first])
    ELSE LET mid == (first + last) \div 2
         IN  ContextLines(messages, first, mid)
                 \o ContextLines(messages, mid + 1, last)

\* format_conversation_context(): the placeholder for an empty history,
\* otherwise the header followed by one line per message, in history order.
FormatConversationContext(s) ==
    IF s.messages = <<>> THEN NoMessagesText
    ELSE ContextHeader \o ContextLines(s.messages, 1, Len(s.messages))

\* disconnect_all(): aclose() is awaited on each registered handle, dispatcher
\* first, each inside its own try with a bare except.  `raising` are the
\* session objects whose aclose() raises; ac is the aclose() call count of
\* every session object.  The result is the new call counts and whether
\* disconnect_all() raised to its caller.
DisconnectAll(s, ac, raising) ==
    LET afterDispatcher ==
            IF s.dispatcher_session # None
            THEN [ac EXCEPT ![s.dispatcher_session] = @ + 1] ELSE ac
        afterDriver ==
            IF s.driver_session # None
            THEN [afterDispatcher EXCEPT ![s.driver_session] = @ + 1]
            ELSE afterDispatcher
    IN  [aclose_calls |-> afterDriver, raised |-> FALSE]

\* The lock when no coroutine holds it.
NoHolder == [op |-> "none", slot |-> "none"]

\* The lock while the coroutine of disconnect_all() holds it, suspended in
\* the aclose() of the session stored in `slot`; free for "none".
Holder(slot) ==
    IF slot = "none" THEN NoHolder ELSE [op |-> "disconnect_all", slot |-> slot]

\* disconnect_all(), by its awaits: the slot whose session it closes after
\* the one of `slot` ("none": the call has just taken the lock), dispatcher
\* first and only slots that hold a session; "none" when nothing is left
\* and the lock is released.
NextToClose(s, slot) ==
    IF slot = "none" /\ s.dispatcher_session # None THEN "dispatcher_session"
    ELSE IF slot \in {"none", "dispatcher_session"} /\ s.driver_session # None
         THEN "driver_session"
         ELSE "none"

\* disconnect_all() whose aclose() calls are in no try block: one that
\* raises ends the call, which raises to its caller.
AcloseReturns_NoIsolation(s, slot, raised) ==
    IF raised THEN [next |-> "none", raised |-> TRUE]
    ELSE [next |-> NextToClose(s, slot), raised |-> FALSE]

\* disconnect_all() when the awaited aclose() of the session in `slot`
\* returns, or raises (`raised`): the bare except swallows what it raised,
\* and the call goes on to the next slot.  The result is that slot and
\* whether disconnect_all() raises to its caller.
AcloseReturns(s, slot, raised) ==
    [next |-> NextToClose(s, slot), raised |-> FALSE]

\* The aclose() call counts once disconnect_all() has issued the aclose()
\* of the session in `slot`.
AcloseIssued(s, ac, slot) ==
    IF slot = "none" THEN ac ELSE [ac EXCEPT ![s[slot]] = @ + 1]

----------------------------------------------------------------------------
(* The agents' end_conversation tool *)

\* Positions of entrypoint at which the conversation is running: the opening
\* generate_reply has been issued and entrypoint has not returned.
InConversation ==
    pc \in {"opening_gen", "sleep1", "driver_gen", "sleep2", "disp_gen"}

\* first_signal before any end_conversation of the call.
NoFirstSignal == [by |-> "nobody", driver_turn |-> 0]

\* DispatcherAgent.end_conversation / DriverAgent.end_conversation:
\* set_concluded(True), then disconnect_all(); `raising` are the sessions
\* whose aclose() raises.  When the first invocation of the call is made by
\* the driver agent while its generate_reply() is in flight, first_signal
\* keeps the number of that driver turn; any other first invocation is kept
\* as "other".
EndConversation(role, raising) ==
    /\ InConversation
    /\ signals[role] < MaxSignals
    /\ state' = SetConcluded(state, TRUE)
    /\ aclose_calls' =
          DisconnectAll(SetConcluded(state, TRUE), aclose_calls,
                        raising).aclose_calls
    /\ signals' = [signals EXCEPT ![role] = @ + 1]
    /\ first_signal' =
          IF first_signal = NoFirstSignal
          THEN IF role = "driver" /\ pc = "driver_gen" /\ reply = "pending"
               THEN [by |-> "driver_turn",
                     driver_turn |-> gen_calls["driver_session"]]
               ELSE [by |-> "other", driver_turn |-> 0]
          ELSE first_signal
    /\ UNCHANGED <<pc, turn_count, start_time, now, exit_reason, calls,
                   gen_calls, reply, reply_text>>
    /\ UNCHANGED <<serviceVars, harnessVars, resolverVars, heuristicVars,
                   standaloneVars, tenantVars, taskVars, lock_holder,
                   readVars, returned>>

----------------------------------------------------------------------------
(* multi_agent_worker.entrypoint *)

\* loop head without the safety timeout
LoopHead_NoTimeout(s, t, t0) ==
    IF s.concluded THEN [pc |-> "returned", exit_reason |-> "concluded"]
    ELSE [pc |-> "sleep1", exit_reason |-> "none"]

\* The while-loop head (lines 262-270): leave the loop when concluded, break
\* on the safety timeout, otherwise start the pacing sleep before the driver.
LoopHead(s, t, t0) ==
    IF IsConcluded(s) THEN [pc |-> "returned", exit_reason |-> "concluded"]
    ELSE IF t - t0 > max_duration_seconds
         THEN [pc |-> "returned", exit_reason |-> "timeout"]
         ELSE [pc |-> "sleep1", exit_reason |-> "none"]

\* after the driver's turn: no conclusion check
AfterDriverTurn_NoCheck(s) == [pc |-> "sleep2", exit_reason |-> "none"]

\* after the driver's turn: back to the top of the loop (a continue)
AfterDriverTurn_Continue(s) ==
    IF s.concluded THEN [pc |-> "returned", exit_reason |-> "concluded"]
    ELSE [pc |-> "sleep1", exit_reason |-> "none"]

\* The check after the driver's turn (lines 304-309).
AfterDriverTurn(s) ==
    IF IsConcluded(s) THEN [pc |-> "returned", exit_reason |-> "concluded"]
    ELSE [pc |-> "sleep2", exit_reason |-> "none"]

\* The check after the dispatcher's turn (lines 343-350), then the loop head.
AfterDispatcherTurn(s, t, t0) ==
    IF IsConcluded(s) THEN [pc |-> "returned", exit_reason |-> "concluded"]
    ELSE LoopHead(s, t, t0)

\* dispatcher_session.start() returned; driver_session.start() is awaited.
DispatcherSessionStarted ==
    /\ pc = "start_disp"
    /\ pc' = "start_drv"
    /\ UNCHANGED <<state, aclose_calls, turn_count, start_time, now,
                   exit_reason, calls, gen_calls, signals, reply>>
    /\ UNCHANGED <<reply_text, first_signal>>
    /\ UNCHANGED <<serviceVars, harnessVars, resolverVars, heuristicVars,
                   standaloneVars, tenantVars, taskVars, lock_holder,
                   readVars, returned>>

\* driver_session.start() returned: reset() the shared state (line 238), then
\* issue the dispatcher's opening generate_reply() (line 244).
DriverSessionStarted ==
    /\ pc = "start_drv"
    /\ state' = Reset(state)
    /\ gen_calls' = [gen_calls EXCEPT !["dispatcher_session"] = @ + 1]
    /\ reply' = "pending"
    /\ pc' = "opening_gen"
    /\ UNCHANGED <<aclose_calls, turn_count, start_time, now, exit_reason,
                   calls, signals>>
    /\ UNCHANGED <<reply_text, first_signal>>
    /\ UNCHANGED <<serviceVars, harnessVars, resolverVars, heuristicVars,
                   standaloneVars, tenantVars, taskVars, lock_holder,
                   readVars, returned>>

\* The session: the generate_reply() in flight completes after d seconds,
\* with an exception or with a reply whose text is `produced`.
ReplyCompletes(outcome, d, produced) ==
    /\ pc \in {"opening_gen", "driver_gen", "disp_gen"}
    /\ reply = "pending"
    /\ reply' = outcome
    /\ reply_text' = IF outcome = "ok" THEN produced ELSE NoText
    /\ now' = now + d
    /\ UNCHANGED <<state, aclose_calls, pc, turn_count, start_time,
                   exit_reason, calls, gen_calls, signals>>
    /\ UNCHANGED first_signal
    /\ UNCHANGED <<serviceVars, harnessVars, resolverVars, heuristicVars,
                   standaloneVars, tenantVars, taskVars, lock_holder,
                   readVars, returned>>

\* The opening generate_reply() returned: record the greeting, take
\* start_time, evaluate the loop head (lines 245-270).  Line 259 reads the
\* local name asyncio: when line 50 has not bound it the UnboundLocalError
\* leaves entrypoint, the greeting recorded and start_time not assigned.
OpeningReplyReturns ==
    /\ pc = "opening_gen"
    /\ reply = "ok"
    /\ state' = AddMessage(state, DispatcherSpeaker, "Initiated greeting")
    /\ turn_count' = 0
    /\ IF asyncio_bound
       THEN /\ start_time' = now
            /\ LET next == LoopHead(state', now, start_time')
               IN  pc' = next.pc /\ exit_reason' = next.exit_reason
       ELSE /\ start_time' = start_time
            /\ pc' = "raised"
            /\ exit_reason' = "UnboundLocalError"
    /\ UNCHANGED <<aclose_calls, now, calls, gen_calls, signals, reply>>
    /\ reply_text' = NoText
    /\ UNCHANGED first_signal
    /\ UNCHANGED <<serviceVars, harnessVars, resolverVars, heuristicVars,
                   standaloneVars, tenantVars, taskVars, lock_holder,
                   readVars, returned>>

\* opening failure logged but not returned from: falls into the loop
OpeningReplyRaises_FallsThrough ==
    /\ pc = "opening_gen"
    /\ reply = "error"
    /\ pc' = "sleep1"
    /\ exit_reason' = "none"
    /\ UNCHANGED <<state, aclose_calls, turn_count, start_time, now, calls,
                   gen_calls, signals, reply>>
    /\ UNCHANGED <<reply_text, first_signal>>
    /\ UNCHANGED <<serviceVars, harnessVars, resolverVars, heuristicVars,
                   standaloneVars, tenantVars, taskVars, lock_holder,
                   readVars, returned>>

\* The opening generate_reply() raised: logged, entrypoint returns
\* (lines 248-252).
OpeningReplyRaises ==
    /\ pc = "opening_gen"
    /\ reply = "error"
    /\ pc' = "returned"
    /\ exit_reason' = "opening_failed"
    /\ UNCHANGED <<state, aclose_calls, turn_count, start_time, now, calls,
                   gen_calls, signals, reply>>
    /\ UNCHANGED <<reply_text, first_signal>>
    /\ UNCHANGED <<serviceVars, harnessVars, resolverVars, heuristicVars,
                   standaloneVars, tenantVars, taskVars, lock_holder,
                   readVars, returned>>

\* sleep(2) at line 270 is over: format the conversation context, rebuild
\* the driver agent from it and issue the driver's generate_reply() (lines
\* 272-293).
DriverPacingDone ==
    /\ pc = "sleep1"
    /\ now' = now + PacingDelay
    /\ gen_calls' = [gen_calls EXCEPT !["driver_session"] = @ + 1]
    /\ reply' = "pending"
    /\ pc' = "driver_gen"
    /\ context' = FormatConversationContext(state)
    /\ UNCHANGED <<state, aclose_calls, turn_count, start_time, exit_reason,
                   calls, signals>>
    /\ UNCHANGED <<reply_text, first_signal>>
    /\ UNCHANGED <<serviceVars, harnessVars, resolverVars, heuristicVars,
                   standaloneVars, tenantVars, taskVars, lock_holder,
                   count, comparable, state_dict, returned>>

\* The driver's generate_reply() returned (lines 294-309).
DriverReplyReturns ==
    /\ pc = "driver_gen"
    /\ reply = "ok"
    /\ state' = AddMessage(state, DriverSpeaker, "Responded to dispatcher")
    /\ turn_count' = turn_count + 1
    /\ LET next == AfterDriverTurn(state')
       IN  pc' = next.pc /\ exit_reason' = next.exit_reason
    /\ UNCHANGED <<aclose_calls, start_time, now, calls, gen_calls, signals,
                   reply>>
    /\ reply_text' = NoText
    /\ UNCHANGED first_signal
    /\ UNCHANGED <<serviceVars, harnessVars, resolverVars, heuristicVars,
                   standaloneVars, tenantVars, taskVars, lock_holder,
                   readVars, returned>>

\* driver failure logged and the loop goes on to the dispatcher's turn
DriverReplyRaises_GoesOn ==
    /\ pc = "driver_gen"
    /\ reply = "error"
    /\ pc' = "sleep2"
    /\ exit_reason' = "none"
    /\ UNCHANGED <<state, aclose_calls, turn_count, start_time, now, calls,
                   gen_calls, signals, reply>>
    /\ UNCHANGED <<reply_text, first_signal>>
    /\ UNCHANGED <<serviceVars, harnessVars, resolverVars, heuristicVars,
                   standaloneVars, tenantVars, taskVars, lock_holder,
                   readVars, returned>>

\* The driver's generate_reply() raised: logged, break (lines 298-302).
DriverReplyRaises ==
    /\ pc = "driver_gen"
    /\ reply = "error"
    /\ pc' = "returned"
    /\ exit_reason' = "turn_failed"
    /\ UNCHANGED <<state, aclose_calls, turn_count, start_time, now, calls,
                   gen_calls, signals, reply>>
    /\ UNCHANGED <<reply_text, first_signal>>
    /\ UNCHANGED <<serviceVars, harnessVars, resolverVars, heuristicVars,
                   standaloneVars, tenantVars, taskVars, lock_holder,
                   readVars, returned>>

\* sleep(2) at line 309 is over: format the conversation context, rebuild
\* the dispatcher agent from it and issue the dispatcher's generate_reply()
\* (lines 311-332).
DispatcherPacingDone ==
    /\ pc = "sleep2"
    /\ now' = now + PacingDelay
    /\ gen_calls' = [gen_calls EXCEPT !["dispatcher_session"] = @ + 1]
    /\ reply' = "pending"
    /\ pc' = "disp_gen"
    /\ context' = FormatConversationContext(state)
    /\ UNCHANGED <<state, aclose_calls, turn_count, start_time, exit_reason,
                   calls, signals>>
    /\ UNCHANGED <<reply_text, first_signal>>
    /\ UNCHANGED <<serviceVars, harnessVars, resolverVars, heuristicVars,
                   standaloneVars, tenantVars, taskVars, lock_holder,
                   count, comparable, state_dict, returned>>

\* The dispatcher's generate_reply() returned (lines 333-350, then the loop
\* head, lines 262-270).
DispatcherReplyReturns ==
    /\ pc = "disp_gen"
    /\ reply = "ok"
    /\ state' = AddMessage(state, DispatcherSpeaker, "Responded to driver")
    /\ turn_count' = turn_count + 1
    /\ LET next == AfterDispatcherTurn(state', now, start_time)
       IN  pc' = next.pc /\ exit_reason' = next.exit_reason
    /\ UNCHANGED <<aclose_calls, start_time, now, calls, gen_calls, signals,
                   reply>>
    /\ reply_text' = NoText
    /\ UNCHANGED first_signal
    /\ UNCHANGED <<serviceVars, harnessVars, resolverVars, heuristicVars,
                   standaloneVars, tenantVars, taskVars, lock_holder,
                   readVars, returned>>

\* The dispatcher's generate_reply() raised: logged, break (lines 337-341).
DispatcherReplyRaises ==
    /\ pc = "disp_gen"
    /\ reply = "error"
    /\ pc' = "returned"
    /\ exit_reason' = "turn_failed"
    /\ UNCHANGED <<state, aclose_calls, turn_count, start_time, now, calls,
                   gen_calls, signals, reply>>
    /\ UNCHANGED <<reply_text, first_signal>>
    /\ UNCHANGED <<serviceVars, harnessVars, resolverVars, heuristicVars,
                   standaloneVars, tenantVars, taskVars, lock_holder,
                   readVars, returned>>

----------------------------------------------------------------------------
(* multi_agent_worker.entrypoint: the room metadata (lines 33-195) *)

max_retries == 5

\* ctx.room.name, and the name of another room the registry may list.
RoomName == "call-1"
OtherRoomName == "call-2"

\* A metadata value is a str or None: ctx.room.metadata, room.metadata of a
\* listed room, the local room_metadata.  The str whose text is "None" is
\* not None.
Str(text) == [type |-> "str", value |-> text]
NoneValue == [type |-> "NoneType"]

\* Python truthiness of a str or None
Truthy(blob) == blob # NoneValue /\ blob.value # ""

\* Values json.loads can return, and its failure.
JsonNull == [kind |-> "null"]
JsonArray == [kind |-> "array"]
JsonString(v) == [kind |-> "string", value |-> v]
JsonObject(members) == [kind |-> "object", members |-> members]
JsonDecodeError == [kind |-> "JSONDecodeError"]

\* The empty dict {}.
EmptyDict == JsonObject([k \in {} |-> JsonNull])

\* Metadata texts a room may carry.
BlobBoth ==
    "{\"dispatcherAgent\": {\"prompt\": \"P1\"}, \"driverAgent\": {\"prompt\": \"P2\"}}"
BlobEmptyObject == "{}"
BlobNotJson == "not json"
BlobArray == "[1]"
BlobDispatcherNull ==
    "{\"dispatcherAgent\": null, \"driverAgent\": {\"prompt\": \"P2\"}}"
BlobDriverString ==
    "{\"dispatcherAgent\": {\"prompt\": \"P1\"}, \"driverAgent\": \"x\"}"
BlobScenarioNull ==
    "{\"scenario\": null, \"dispatcherAgent\": {\"prompt\": \"P1\"}}"
BlobOtherRoom == "{\"dispatcherAgent\": {\"prompt\": \"P9\"}}"

MetadataBlobs ==
    {BlobBoth, BlobEmptyObject, BlobNotJson, BlobArray, BlobDispatcherNull,
     BlobDriverString, BlobScenarioNull}

\* json.loads on the metadata texts above
JsonLoads(text) ==
    LET blob == text
    IN
    CASE blob = BlobBoth ->
            JsonObject([dispatcherAgent |->
                            JsonObject([prompt |-> JsonString("P1")]),
                        driverAgent |->
                            JsonObject([prompt |-> JsonString("P2")])])
      [] blob = BlobEmptyObject -> EmptyDict
      [] blob = BlobArray -> JsonArray
      [] blob = BlobDispatcherNull ->
            JsonObject([dispatcherAgent |-> JsonNull,
                        driverAgent |->
                            JsonObject([prompt |-> JsonString("P2")])])
      [] blob = BlobDriverString ->
            JsonObject([dispatcherAgent |->
                            JsonObject([prompt |-> JsonString("P1")]),
                        driverAgent |-> JsonString("x")])
      [] blob = BlobScenarioNull ->
            JsonObject([scenario |-> JsonNull,
                        dispatcherAgent |->
                            JsonObject([prompt |-> JsonString("P1")])])
      [] blob = BlobOtherRoom ->
            JsonObject([dispatcherAgent |->
                            JsonObject([prompt |-> JsonString("P9")])])
      [] OTHER -> JsonDecodeError

\* dict.get(key, default)
DictGet(obj, key, default) ==
    IF key \in DOMAIN obj.members THEN obj.members[key] ELSE default

\* Lines 110-122: the two configs after the parse block.  json.loads may
\* raise; .get on a value that is not a dict (lines 114, 119, 120) raises
\* AttributeError; either is caught at line 121 with the assignments made
\* so far kept.
ParseMetadata(blob) ==
    LET unset == [dispatcher_config |-> EmptyDict, driver_config |-> EmptyDict]
        metadata == JsonLoads(blob.value)
    IN  IF ~Truthy(blob) THEN unset
        ELSE IF metadata.kind # "object" THEN unset
        ELSE IF DictGet(metadata, "scenario", EmptyDict).kind # "object"
             THEN unset
        ELSE [dispatcher_config |->
                  DictGet(metadata, "dispatcherAgent", EmptyDict),
              driver_config |-> DictGet(metadata, "driverAgent", EmptyDict)]

\* Lines 136-139: dispatcher_config.get / driver_config.get, outside any try.
ExtractPromptsRaises(configs) ==
    \/ configs.dispatcher_config.kind # "object"
    \/ configs.driver_config.kind # "object"

\* custom_dispatcher_prompt / custom_driver_prompt (lines 136, 138); JsonNull
\* stands for None, with which the agent uses its built-in prompt.
CustomPrompt(config) == DictGet(config, "prompt", JsonNull)

\* the room scan without the name test
ScanRooms_AnyRoom(rooms, i) ==
    IF \E j \in i..Len(rooms) : Truthy(rooms[j].metadata)
    THEN rooms[CHOOSE j \in i..Len(rooms) :
                  /\ Truthy(rooms[j].metadata)
                  /\ \A l \in i..(j - 1) : ~Truthy(rooms[l].metadata)].metadata
    ELSE Str("")

\* Lines 82-91: the metadata adopted from one list_rooms response, scanning
\* from index i: that of the first room named like the call's room whose
\* metadata is non-empty; the empty str when there is none.
RECURSIVE ScanRooms(_, _)
ScanRooms(rooms, i) ==
    IF i > Len(rooms) THEN Str("")
    ELSE IF rooms[i].name = RoomName /\ Truthy(rooms[i].metadata)
         THEN rooms[i].metadata
         ELSE ScanRooms(rooms, i + 1)

\* the retry loop sleeping after every attempt but the last, metadata or not
AfterScan_SleepsFirst(meta, n) ==
    IF n < max_retries - 1 THEN "retry_sleep" ELSE "api_close"

\* the retry loop giving up one attempt early
AfterScan_OneAttemptShort(meta, n) ==
    IF Truthy(meta) THEN "api_close"
    ELSE IF n < max_retries - 2 THEN "retry_sleep"
    ELSE "api_close"

\* Lines 93-102: after the scan of attempt n (0-based): leave the loop with
\* metadata, sleep before the next attempt, or leave the loop exhausted.
AfterScan(meta, n) ==
    IF Truthy(meta) THEN "api_close"
    ELSE IF n < max_retries - 1 THEN "retry_sleep"
    ELSE "api_close"

\* Lines 108-195 with room_metadata = meta: parse, extract the prompts, create
\* agents and sessions, await dispatcher_session.start(); or the
\* AttributeError of lines 136-139 leaves entrypoint.
AfterResolution(meta) ==
    LET configs == ParseMetadata(meta)
    IN  [pc |-> IF ExtractPromptsRaises(configs) THEN "raised"
                ELSE "start_disp",
         dispatcher_config |-> configs.dispatcher_config,
         driver_config |-> configs.driver_config]

\* What entrypoint leaves alone before its first session is started.
ResolverFrame ==
    /\ UNCHANGED <<state, aclose_calls, turn_count, start_time, now,
                   exit_reason, gen_calls, signals, reply, reply_text,
                   first_signal>>
    /\ UNCHANGED <<serviceVars, harnessVars, heuristicVars,
                   standaloneVars, tenantVars, taskVars, lock_holder,
                   readVars, returned>>

\* entrypoint asking the registry whatever metadata is attached
Entrypoint_AlwaysQueries(attached, credentials) ==
    /\ pc = "idle"
    /\ calls < MaxCalls
    /\ calls' = calls + 1
    /\ room_metadata' = attached
    /\ asyncio_bound' = TRUE
    /\ attempt' = 0
    /\ responses' = <<>>
    /\ IF credentials
       THEN /\ pc' = "list_rooms"
            /\ api_client' = "open"
            /\ dispatcher_config' = EmptyDict
            /\ driver_config' = EmptyDict
       ELSE LET next == AfterResolution(attached)
            IN  /\ pc' = next.pc
                /\ api_client' = "none"
                /\ dispatcher_config' = next.dispatcher_config
                /\ driver_config' = next.driver_config
    /\ ResolverFrame

\* A job arrives for a room whose attached metadata is `attached`;
\* `credentials` tells whether LIVEKIT_URL, LIVEKIT_API_KEY and
\* LIVEKIT_API_SECRET are all set (line 61).  Lines 33-76, or 33-195 when
\* no registry query is made.  `import asyncio` of line 50 makes asyncio a
\* local name of entrypoint, bound only when the branch of line 43 runs.
Entrypoint(attached, credentials) ==
    /\ pc = "idle"
    /\ calls < MaxCalls
    /\ calls' = calls + 1
    /\ room_metadata' = attached
    /\ asyncio_bound' = ~Truthy(attached)
    /\ attempt' = 0
    /\ responses' = <<>>
    /\ IF ~Truthy(attached) /\ credentials
       THEN /\ pc' = "list_rooms"
            /\ api_client' = "open"
            /\ dispatcher_config' = EmptyDict
            /\ driver_config' = EmptyDict
       ELSE LET next == AfterResolution(attached)
            IN  /\ pc' = next.pc
                /\ api_client' = "none"
                /\ dispatcher_config' = next.dispatcher_config
                /\ driver_config' = next.driver_config
    /\ ResolverFrame

\* A new job of the worker process when the LIVEKIT_* variables are not
\* set, for a room whose attached metadata is `attached`: no registry query
\* is made, so entrypoint runs without an await up to
\* dispatcher_session.start() (lines 25-195).  After the loop (lines
\* 352-362) save_conversation_to_file is not a method of ConversationState:
\* the AttributeError is caught and entrypoint returns, so "returned" is the
\* position after any exit that is not an exception.
StartCall(attached) ==
    /\ pc \in {"idle", "returned", "raised"}
    /\ calls < MaxCalls
    /\ calls' = calls + 1
    /\ pc' = AfterResolution(attached).pc
    /\ room_metadata' = attached
    /\ asyncio_bound' = ~Truthy(attached)
    /\ attempt' = 0
    /\ responses' = <<>>
    /\ api_client' = "none"
    /\ dispatcher_config' = AfterResolution(attached).dispatcher_config
    /\ driver_config' = AfterResolution(attached).driver_config
    /\ gen_calls' = [h \in Handles |-> 0]
    /\ aclose_calls' = [h \in Handles |-> 0]
    /\ signals' = [r \in Roles |-> 0]
    /\ reply' = "none"
    /\ turn_count' = 0
    /\ start_time' = 0
    /\ now' = 0
    /\ exit_reason' = "none"
    /\ UNCHANGED state
    /\ reply_text' = NoText
    /\ first_signal' = NoFirstSignal
    /\ context' = <<>>
    /\ UNCHANGED <<serviceVars, harnessVars, heuristicVars,
                   standaloneVars, tenantVars, taskVars, lock_holder,
                   count, comparable,
                   state_dict, returned>>

\* list_rooms returned `rooms` (lines 78-100).
ListRoomsReturns(rooms) ==
    /\ pc = "list_rooms"
    /\ responses' = Append(responses, rooms)
    /\ LET adopted == ScanRooms(rooms, 1)
       IN  room_metadata' = IF Truthy(adopted) THEN adopted ELSE room_metadata
    /\ pc' = AfterScan(room_metadata', attempt)
    /\ UNCHANGED <<attempt, dispatcher_config, driver_config, calls,
                   api_client>>
    /\ UNCHANGED asyncio_bound
    /\ ResolverFrame

\* list_rooms raised with the failure propagated to the job
ListRoomsRaises_Propagates ==
    /\ pc = "list_rooms"
    /\ pc' = "raised"
    /\ UNCHANGED <<room_metadata, attempt, responses, dispatcher_config,
                   driver_config, calls, api_client>>
    /\ UNCHANGED asyncio_bound
    /\ ResolverFrame

\* list_rooms raised: caught at line 103, which skips the lk_api.aclose() of
\* line 102; then lines 108-195.
ListRoomsRaises ==
    /\ pc = "list_rooms"
    /\ LET next == AfterResolution(room_metadata)
       IN  /\ pc' = next.pc
           /\ dispatcher_config' = next.dispatcher_config
           /\ driver_config' = next.driver_config
    /\ UNCHANGED <<room_metadata, attempt, responses, calls, api_client>>
    /\ UNCHANGED asyncio_bound
    /\ ResolverFrame

\* asyncio.sleep(retry_delay) is over: the next attempt's query (lines 72-76).
RetrySleepDone ==
    /\ pc = "retry_sleep"
    /\ attempt' = attempt + 1
    /\ pc' = "list_rooms"
    /\ UNCHANGED <<room_metadata, responses, dispatcher_config,
                   driver_config, calls, api_client>>
    /\ UNCHANGED asyncio_bound
    /\ ResolverFrame

\* lk_api.aclose() returned, or raised and was caught at line 103; then
\* lines 108-195.
ApiCloseDone(raised) ==
    /\ pc = "api_close"
    /\ LET next == AfterResolution(room_metadata)
       IN  /\ pc' = next.pc
           /\ dispatcher_config' = next.dispatcher_config
           /\ driver_config' = next.driver_config
    /\ api_client' = "closed"
    /\ UNCHANGED <<room_metadata, attempt, responses, calls>>
    /\ UNCHANGED asyncio_bound
    /\ ResolverFrame

----------------------------------------------------------------------------
(* dispatcher_agent.entrypoint and driver_agent.entrypoint: one agent per
   worker process, each with the process's own ConversationState *)

max_wait == 300

\* The AgentSession object the entrypoint of `role` creates.
SessionOf(role) ==
    IF role = "dispatcher" THEN "dispatcher_session" ELSE "driver_session"

\* Positions of a standalone entrypoint at which its agent can invoke
\* end_conversation: the session has started and entrypoint is not waiting
\* for the state's lock.
StandaloneInConversation == pc \in {"sa_sleep", "sa_gen", "sa_poll"}

\* while not is_concluded() and elapsed < max_wait.
MonitorHead(s, e) ==
    IF ~IsConcluded(s) /\ e < 2 * max_wait THEN "sa_poll" ELSE "returned"

\* entrypoint reaches the head of the monitoring loop: is_concluded() takes
\* the lock, so entrypoint waits there while a disconnect_all() holds it.
MonitorTest(s, e, holder) ==
    IF holder # NoHolder THEN "sa_head_wait" ELSE MonitorHead(s, e)

\* set_dispatcher_session(session) / set_driver_session(session), then
\* set_room(ctx.room) (dispatcher_agent.py lines 136-138, driver_agent.py
\* lines 151-153).
Register(s, role) ==
    SetRoom(IF role = "dispatcher"
            THEN SetDispatcherSession(s, SessionOf(role))
            ELSE SetDriverSession(s, SessionOf(role)),
            RoomName)

\* A job arrives at the worker of `role`: a new AgentSession is created and
\* stored with the room in the shared state, then session.start() is awaited
\* (dispatcher_agent.py lines 103-141, driver_agent.py lines 118-156).  The
\* state is what the previous job of the process left; when a
\* disconnect_all() of that job still holds the lock, entrypoint waits in
\* its first setter.  aclose_calls counts the calls on the session a name
\* stands for, and the new session takes the name when it is stored.
StandaloneEntrypoint(role) ==
    /\ pc \in {"idle", "returned", "raised"}
    /\ calls < MaxCalls
    /\ calls' = calls + 1
    /\ sa_role' = role
    /\ elapsed' = 0
    /\ gen_calls' = [h \in Handles |-> 0]
    /\ signals' = [r \in Roles |-> 0]
    /\ reply' = "none"
    /\ IF lock_holder = NoHolder
       THEN /\ state' = Register(state, role)
            /\ aclose_calls' = [aclose_calls EXCEPT ![SessionOf(role)] = 0]
            /\ pc' = "sa_start"
       ELSE /\ pc' = "sa_register_wait"
            /\ UNCHANGED <<state, aclose_calls>>
    /\ UNCHANGED <<turn_count, start_time, now, exit_reason, reply_text,
                   first_signal>>
    /\ UNCHANGED <<serviceVars, harnessVars, resolverVars, heuristicVars,
                   tenantVars, taskVars, lock_holder, readVars,
                   returned>>

\* The lock is released to the entrypoint waiting in its first setter: the
\* session and the room are stored and session.start() is awaited.
StandaloneRegistered ==
    /\ pc = "sa_register_wait"
    /\ lock_holder = NoHolder
    /\ state' = Register(state, sa_role)
    /\ aclose_calls' = [aclose_calls EXCEPT ![SessionOf(sa_role)] = 0]
    /\ pc' = "sa_start"
    /\ UNCHANGED <<turn_count, start_time, now, exit_reason, calls,
                   gen_calls, signals, reply, reply_text, first_signal>>
    /\ UNCHANGED <<serviceVars, harnessVars, resolverVars, heuristicVars,
                   standaloneVars, tenantVars, taskVars, lock_holder,
                   readVars, returned>>

\* session.start() returned: the dispatcher sleeps two seconds before its
\* greeting, the driver goes to its monitoring loop.
StandaloneSessionStarted ==
    /\ pc = "sa_start"
    /\ pc' = IF sa_role = "dispatcher" THEN "sa_sleep"
             ELSE MonitorTest(state, elapsed, lock_holder)
    /\ UNCHANGED <<stateVars, turn_count, start_time, now, exit_reason, calls,
                   gen_calls, signals, reply, reply_text, first_signal>>
    /\ UNCHANGED <<serviceVars, harnessVars, resolverVars, heuristicVars,
                   standaloneVars, tenantVars, taskVars, lock_holder,
                   readVars, returned>>

\* asyncio.sleep(2) is over: session.generate_reply() is issued
\* (dispatcher_agent.py line 161), whatever the state says.
StandaloneGreetingIssued ==
    /\ pc = "sa_sleep"
    /\ gen_calls' = [gen_calls EXCEPT ![SessionOf(sa_role)] = @ + 1]
    /\ reply' = "pending"
    /\ pc' = "sa_gen"
    /\ UNCHANGED <<stateVars, turn_count, start_time, now, exit_reason, calls,
                   signals, reply_text, first_signal>>
    /\ UNCHANGED <<serviceVars, harnessVars, resolverVars, heuristicVars,
                   standaloneVars, tenantVars, taskVars, lock_holder,
                   readVars, returned>>

\* The greeting's generate_reply() returned: the monitoring loop begins.
StandaloneGreetingReturns ==
    /\ pc = "sa_gen"
    /\ reply' = "ok"
    /\ pc' = MonitorTest(state, elapsed, lock_holder)
    /\ UNCHANGED <<stateVars, turn_count, start_time, now, exit_reason, calls,
                   gen_calls, signals, reply_text, first_signal>>
    /\ UNCHANGED <<serviceVars, harnessVars, resolverVars, heuristicVars,
                   standaloneVars, tenantVars, taskVars, lock_holder,
                   readVars, returned>>

\* The greeting's generate_reply() raised: no try surrounds line 161, the
\* exception leaves entrypoint.
StandaloneGreetingRaises ==
    /\ pc = "sa_gen"
    /\ reply' = "error"
    /\ pc' = "raised"
    /\ UNCHANGED <<stateVars, turn_count, start_time, now, exit_reason, calls,
                   gen_calls, signals, reply_text, first_signal>>
    /\ UNCHANGED <<serviceVars, harnessVars, resolverVars, heuristicVars,
                   standaloneVars, tenantVars, taskVars, lock_holder,
                   readVars, returned>>

\* asyncio.sleep(0.5) of the monitoring loop is over: elapsed += 0.5, then
\* the loop head.
StandalonePollDone ==
    /\ pc = "sa_poll"
    /\ elapsed' = elapsed + 1
    /\ pc' = MonitorTest(state, elapsed + 1, lock_holder)
    /\ UNCHANGED <<stateVars, turn_count, start_time, now, exit_reason, calls,
                   gen_calls, signals, reply, reply_text, first_signal>>
    /\ UNCHANGED <<serviceVars, harnessVars, resolverVars, heuristicVars,
                   sa_role, tenantVars, taskVars, lock_holder, readVars,
                   returned>>

\* The lock is released to the entrypoint waiting at the loop head:
\* is_concluded() returns and the loop condition is evaluated.
StandaloneLockGranted ==
    /\ pc = "sa_head_wait"
    /\ lock_holder = NoHolder
    /\ pc' = MonitorHead(state, elapsed)
    /\ UNCHANGED <<stateVars, turn_count, start_time, now, exit_reason, calls,
                   gen_calls, signals, reply, reply_text, first_signal>>
    /\ UNCHANGED <<serviceVars, harnessVars, resolverVars, heuristicVars,
                   standaloneVars, tenantVars, taskVars, lock_holder,
                   readVars, returned>>

\* The process's agent invokes its end_conversation tool while the lock is
\* free: set_concluded(True), then disconnect_all() takes the lock and runs
\* up to its first await, the aclose() of the first session the state holds.
StandaloneEndConversation ==
    /\ StandaloneInConversation
    /\ lock_holder = NoHolder
    /\ signals[sa_role] < MaxSignals
    /\ state' = SetConcluded(state, TRUE)
    /\ LET slot == NextToClose(SetConcluded(state, TRUE), "none")
       IN  /\ aclose_calls' =
                  AcloseIssued(SetConcluded(state, TRUE), aclose_calls, slot)
           /\ lock_holder' = Holder(slot)
    /\ signals' = [signals EXCEPT ![sa_role] = @ + 1]
    /\ UNCHANGED <<pc, turn_count, start_time, now, exit_reason, calls,
                   gen_calls, reply, reply_text, first_signal>>
    /\ UNCHANGED <<serviceVars, harnessVars, resolverVars, heuristicVars,
                   standaloneVars, tenantVars, taskVars,
                   readVars, returned>>

\* The aclose() awaited by the tool's disconnect_all() returned, or raised
\* and was swallowed: the next session is closed if there is one, else the
\* lock is released and end_conversation returns.
StandaloneAcloseDone(raised) ==
    /\ sa_role # "none"
    /\ lock_holder # NoHolder
    /\ LET result == AcloseReturns(state, lock_holder.slot, raised)
       IN  /\ aclose_calls' = AcloseIssued(state, aclose_calls, result.next)
           /\ lock_holder' = Holder(result.next)
    /\ UNCHANGED <<state, workerVars>>
    /\ UNCHANGED <<serviceVars, harnessVars, resolverVars, heuristicVars,
                   standaloneVars, tenantVars, taskVars,
                   readVars, returned>>

----------------------------------------------------------------------------
(* Text: a Python str is the sequence of its code points *)

\* chr(c).lower() == chr(a), for an ASCII character a.  The characters
\* str.lower() maps to a lower-case ASCII letter are the letter, its ASCII
\* capital and, for k, the Kelvin sign U+212A; it maps nothing to an ASCII
\* capital and no other character to an ASCII character that is no letter.
LowersTo(c, a) ==
    IF a \in 97..122 THEN c = a \/ c = a - 32 \/ (a = 107 /\ c = 8490)
    ELSE IF a \in 65..90 THEN FALSE
    ELSE c = a

\* The code points str.split() treats as separators: U+0009 to U+000D,
\* U+001C to U+0020, U+0085, U+00A0, U+1680, U+2000 to U+200A, U+2028,
\* U+2029, U+202F, U+205F and U+3000.
WhiteSpace ==
    (9..13) \cup (28..32) \cup {133, 160, 5760} \cup (8192..8202)
        \cup {8232, 8233, 8239, 8287, 12288}

IsSpace(c) == c \in WhiteSpace

\* str.split(): the maximal runs of characters that are no separators, in
\* order.  The n-th word runs from the n-th position that starts a run to
\* the n-th position that ends one.
Split(text) ==
    LET starts == {i \in 1..Len(text) :
                      ~IsSpace(text[i]) /\ (i = 1 \/ IsSpace(text[i - 1]))}
        ends == {i \in 1..Len(text) :
                    ~IsSpace(text[i])
                        /\ (i = Len(text) \/ IsSpace(text[i + 1]))}
        nth(S, n) == CHOOSE i \in S : Cardinality({j \in S : j <= i}) = n
    IN  [n \in 1..Cardinality(starts) |->
            SubSeq(text, nth(starts, n), nth(ends, n))]

\* phrase in text.lower(), for a phrase of ASCII characters.  str.lower()
\* replaces each character by its lower-case form, one character for every
\* character but the dotted capital I U+0130, which becomes "i" and U+0307:
\* it can stand for an "i" only at the end of the phrase.
InLowered(phrase, text) ==
    \E k \in 0..(Len(text) - Len(phrase)) :
        \A j \in 1..Len(phrase) :
            \/ LowersTo(text[k + j], phrase[j])
            \/ j = Len(phrase) /\ phrase[j] = 105 /\ text[k + j] = 304

\* end_phrases of _is_conversation_complete, in source order: "thanks",
\* "thank you", "talk soon", "have a good one", "see you", "bye", "goodbye",
\* "sounds good", "perfect", "will do"
end_phrases ==
    <<
      <<116, 104, 97, 110, 107, 115>>,
      <<116, 104, 97, 110, 107, 32, 121, 111, 117>>,
      <<116, 97, 108, 107, 32, 115, 111, 111, 110>>,
      <<104, 97, 118, 101, 32, 97, 32, 103, 111, 111, 100, 32, 111, 110,
        101>>,
      <<115, 101, 101, 32, 121, 111, 117>>,
      <<98, 121, 101>>,
      <<103, 111, 111, 100, 98, 121, 101>>,
      <<115, 111, 117, 110, 100, 115, 32, 103, 111, 111, 100>>,
      <<112, 101, 114, 102, 101, 99, 116>>,
      <<119, 105, 108, 108, 32, 100, 111>>
    >>

short_message_words == 15

\* the heuristic with a strict word limit
IsConversationComplete_StrictlyShorter(text) ==
    LET words == Split(text)
    IN  /\ Len(words) < short_message_words
        /\ \E p \in 1..Len(end_phrases) : InLowered(end_phrases[p], text)

\* ConversationService._is_conversation_complete.  text_lower.split() has
\* as many words as text.split(): str.lower() maps no character to or from
\* a separator.
IsConversationComplete(text) ==
    LET words == Split(text)
    IN  /\ Len(words) <= short_message_words
        /\ \E p \in 1..Len(end_phrases) : InLowered(end_phrases[p], text)

\* Responses the LLM may give (LLMService.generate_response return values).
\* "Hey Chris, got a load for you"
TextGreeting ==
    <<72, 101, 121, 32, 67, 104, 114, 105, 115, 44, 32, 103, 111, 116, 32,
      97, 32, 108, 111, 97, 100, 32, 102, 111, 114, 32, 121, 111, 117>>

\* "Sounds good, talk soon!"
TextClosing ==
    <<83, 111, 117, 110, 100, 115, 32, 103, 111, 111, 100, 44, 32, 116,
      97, 108, 107, 32, 115, 111, 111, 110, 33>>

\* "thanks" and fifteen times " ok": sixteen words.
TextLongThanks ==
    <<116, 104, 97, 110, 107, 115, 32, 111, 107, 32, 111, 107, 32, 111,
      107, 32, 111, 107, 32, 111, 107, 32, 111, 107, 32, 111, 107, 32,
      111, 107, 32, 111, 107, 32, 111, 107, 32, 111, 107, 32, 111, 107,
      32, 111, 107, 32, 111, 107, 32, 111, 107>>

\* "THANK YOU" written with the Kelvin sign U+212A for K: str.lower() gives
\* "thank you".
TextKelvinThankYou ==
    <<84, 72, 65, 78, 8490, 32, 89, 79, 85>>

Texts == {TextGreeting, TextClosing, TextLongThanks, TextKelvinThankYou}

\* The texts of Texts for which _is_conversation_complete returns True.
ClosingTexts == {TextClosing, TextKelvinThankYou}

\* Texts a session may produce for one generate_reply().
ReplyTexts == {TextGreeting, TextClosing}

----------------------------------------------------------------------------
(* ConversationService._is_conversation_complete called on its own *)

\* words of the longest text checked
MaxWords == 40

\* "thanks"
TextThanks ==
    <<116, 104, 97, 110, 107, 115>>

\* "THANKS a lot"
TextUpperThanks ==
    <<84, 72, 65, 78, 75, 83, 32, 97, 32, 108, 111, 116>>

\* "Goodbye!"
TextGoodbye ==
    <<71, 111, 111, 100, 98, 121, 101, 33>>

\* "I am at the dock"
TextNoPhrase ==
    <<73, 32, 97, 109, 32, 97, 116, 32, 116, 104, 101, 32, 100, 111, 99,
      107>>

\* "perfectly"
TextPerfectly ==
    <<112, 101, 114, 102, 101, 99, 116, 108, 121>>

\* "thank", a tab, "you"
TextThankTabYou ==
    <<116, 104, 97, 110, 107, 9, 121, 111, 117>>

\* "will", two spaces, "do"
TextWillDoTwoSpaces ==
    <<119, 105, 108, 108, 32, 32, 100, 111>>

\* two spaces, "see you", a line feed
TextSeeYouPadded ==
    <<32, 32, 115, 101, 101, 32, 121, 111, 117, 10>>

\* Sixteen words, the first a closing phrase: "thanks", then fifteen times
\* "ok", each after a no-break space U+00A0, a form feed or a vertical tab.
TextThanksOddSeparators ==
    <<116, 104, 97, 110, 107, 115, 160, 111, 107, 12, 111, 107, 11, 111,
      107, 160, 111, 107, 12, 111, 107, 11, 111, 107, 160, 111, 107, 12,
      111, 107, 11, 111, 107, 160, 111, 107, 12, 111, 107, 11, 111, 107,
      160, 111, 107, 12, 111, 107, 11, 111, 107>>

\* "À BIENTÔT, BYE": capitals of Latin-1 (U+00C0, U+00D4) beside a closing
\* phrase in capitals.
TextAccentedUpper ==
    <<192, 32, 66, 73, 69, 78, 84, 212, 84, 44, 32, 66, 89, 69>>

\* Sixteen words: "thanks", then fifteen times "ok", each after an Ogham
\* space mark U+1680.
TextThanksOghamSeparators ==
    <<116, 104, 97, 110, 107, 115, 5760, 111, 107, 5760, 111, 107, 5760,
      111, 107, 5760, 111, 107, 5760, 111, 107, 5760, 111, 107, 5760, 111,
      107, 5760, 111, 107, 5760, 111, 107, 5760, 111, 107, 5760, 111, 107,
      5760, 111, 107, 5760, 111, 107, 5760, 111, 107, 5760, 111, 107>>

\* Seventeen words: "thanks", then sixteen times "ok", each after one of
\* U+2000 to U+200A, U+2028, U+2029, U+202F, U+205F, U+3000.
TextThanksWideSeparators ==
    <<116, 104, 97, 110, 107, 115, 8192, 111, 107, 8193, 111, 107, 8194,
      111, 107, 8195, 111, 107, 8196, 111, 107, 8197, 111, 107, 8198, 111,
      107, 8199, 111, 107, 8200, 111, 107, 8201, 111, 107, 8202, 111, 107,
      8232, 111, 107, 8233, 111, 107, 8239, 111, 107, 8287, 111, 107,
      12288, 111, 107>>

\* "thank", an em space U+2003, "you": two words, and no closing phrase since
\* the phrase has a space U+0020.
TextThankEmSpaceYou ==
    <<116, 104, 97, 110, 107, 8195, 121, 111, 117>>

\* One word: "thanks", then fifteen times "ok", each after a zero width space
\* U+200B, which is no separator.
TextThanksZeroWidth ==
    <<116, 104, 97, 110, 107, 115, 8203, 111, 107, 8203, 111, 107, 8203,
      111, 107, 8203, 111, 107, 8203, 111, 107, 8203, 111, 107, 8203, 111,
      107, 8203, 111, 107, 8203, 111, 107, 8203, 111, 107, 8203, 111, 107,
      8203, 111, 107, 8203, 111, 107, 8203, 111, 107, 8203, 111, 107>>

\* Capitals that are not ASCII in the place of the first letter of a closing
\* phrase: the Greek capital sigma U+03A3 for S, the Greek capital tau U+03A4
\* for T.
TextGreekCapitals ==
    <<931, 79, 85, 78, 68, 83, 32, 71, 79, 79, 68, 44, 32, 932, 72, 65,
      78, 75, 83>>

\* "WILL DO" written with the dotted capital I U+0130: str.lower() gives
\* "wi", U+0307, "ll do".
TextDottedWillDo ==
    <<87, 304, 76, 76, 32, 68, 79>>

\* A text the heuristic is called on, with what its caller put into it: the
\* number of words and whether one of the closing phrases is in it, letter
\* case apart.
Case(text, words, closing) ==
    [text |-> text, words |-> words, closing |-> closing]

\* The texts the heuristic is called on: with and without a closing phrase,
\* in either case, with separators other than one space.
SeedCases ==
    {Case(TextClosing, 4, TRUE),
     Case(TextThanks, 1, TRUE),
     Case(TextUpperThanks, 3, TRUE),
     Case(TextGoodbye, 1, TRUE),
     Case(TextNoPhrase, 5, FALSE),
     Case(TextPerfectly, 1, TRUE),
     Case(TextThankTabYou, 2, FALSE),
     Case(TextWillDoTwoSpaces, 2, FALSE),
     Case(TextSeeYouPadded, 2, TRUE),
     Case(TextThanksOddSeparators, 16, TRUE),
     Case(TextAccentedUpper, 3, TRUE),
     Case(TextThanksOghamSeparators, 16, TRUE),
     Case(TextThanksWideSeparators, 17, TRUE),
     Case(TextThankEmSpaceYou, 2, FALSE),
     Case(TextThanksZeroWidth, 1, TRUE),
     Case(TextGreekCapitals, 3, FALSE),
     Case(TextKelvinThankYou, 2, TRUE),
     Case(TextDottedWillDo, 2, FALSE),
     Case(<<>>, 0, FALSE)}

\* The caller makes the text one word longer: " ok" is appended.
AppendFillerWord ==
    /\ svc_pc = "text"
    /\ Len(Split(arg_text)) < MaxWords
    /\ arg_text' = arg_text \o <<32, 111, 107>>
    /\ arg_words' = arg_words + 1
    /\ UNCHANGED <<arg_closing, verdict, svc_pc, max_turns, turn_num, conversation,
                   llm_calls>>
    /\ UNCHANGED <<stateVars, workerVars, harnessVars, resolverVars,
                   standaloneVars, tenantVars, taskVars, lock_holder,
                   readVars, returned>>

\* _is_conversation_complete(arg_text) is called and returns.
CallIsConversationComplete ==
    /\ svc_pc = "text"
    /\ verdict' = IsConversationComplete(arg_text)
    /\ svc_pc' = "checked"
    /\ UNCHANGED <<arg_text, arg_words, arg_closing, max_turns, turn_num,
                   conversation, llm_calls>>
    /\ UNCHANGED <<stateVars, workerVars, harnessVars, resolverVars,
                   standaloneVars, tenantVars, taskVars, lock_holder,
                   readVars, returned>>

----------------------------------------------------------------------------
(* ConversationService.generate_conversation *)

\* generate_conversation argument values explored
MaxTurnsArg == 2

Turn(speaker, text) == [speaker |-> speaker, text |-> text]

\* the for loop running one iteration more than max_turns
ForLoop_OneMore(n, mt) == IF n <= mt THEN "driver_llm" ELSE "returned"

\* for turn_num in range(max_turns): the next iteration issues the driver's
\* LLM call, or the loop is exhausted and the conversation is returned.
ForLoop(n, mt) == IF n < mt THEN "driver_llm" ELSE "returned"

\* Entry up to the awaited opening LLM call (lines 127-171).
GenerateConversation(mt) ==
    /\ svc_pc = "ready"
    /\ max_turns' = mt
    /\ conversation' = <<>>
    /\ turn_num' = 0
    /\ llm_calls' = 1
    /\ svc_pc' = "opening_llm"
    /\ UNCHANGED <<stateVars, workerVars, harnessVars, resolverVars,
                   heuristicVars,
                   standaloneVars, tenantVars, taskVars, lock_holder,
                   readVars, returned>>

\* The opening call returned text (lines 173-192).
OpeningResponse(text) ==
    /\ svc_pc = "opening_llm"
    /\ conversation' = Append(conversation, Turn("Dispatcher", text))
    /\ svc_pc' = ForLoop(0, max_turns)
    /\ llm_calls' = IF svc_pc' = "driver_llm" THEN llm_calls + 1 ELSE llm_calls
    /\ UNCHANGED <<max_turns, turn_num>>
    /\ UNCHANGED <<stateVars, workerVars, harnessVars, resolverVars,
                   heuristicVars,
                   standaloneVars, tenantVars, taskVars, lock_holder,
                   readVars, returned>>

\* The driver's call returned text (lines 192-203).
DriverResponse(text) ==
    /\ svc_pc = "driver_llm"
    /\ conversation' = Append(conversation, Turn("Driver", text))
    /\ IF IsConversationComplete(text)
       THEN svc_pc' = "returned" /\ llm_calls' = llm_calls
       ELSE svc_pc' = "dispatcher_llm" /\ llm_calls' = llm_calls + 1
    /\ UNCHANGED <<max_turns, turn_num>>
    /\ UNCHANGED <<stateVars, workerVars, harnessVars, resolverVars,
                   heuristicVars,
                   standaloneVars, tenantVars, taskVars, lock_holder,
                   readVars, returned>>

\* the dispatcher's turn without the completion check
DispatcherResponse_NoCheck(text) ==
    /\ svc_pc = "dispatcher_llm"
    /\ conversation' = Append(conversation, Turn("Dispatcher", text))
    /\ turn_num' = turn_num + 1
    /\ svc_pc' = ForLoop(turn_num + 1, max_turns)
    /\ llm_calls' = IF svc_pc' = "driver_llm" THEN llm_calls + 1
                    ELSE llm_calls
    /\ UNCHANGED max_turns
    /\ UNCHANGED <<stateVars, workerVars, harnessVars, resolverVars,
                   heuristicVars,
                   standaloneVars, tenantVars, taskVars, lock_holder,
                   readVars, returned>>

\* The dispatcher's call returned text (lines 204-209, then the next
\* iteration or the return).
DispatcherResponse(text) ==
    /\ svc_pc = "dispatcher_llm"
    /\ conversation' = Append(conversation, Turn("Dispatcher", text))
    /\ IF IsConversationComplete(text)
       THEN svc_pc' = "returned" /\ turn_num' = turn_num
            /\ llm_calls' = llm_calls
       ELSE /\ turn_num' = turn_num + 1
            /\ svc_pc' = ForLoop(turn_num + 1, max_turns)
            /\ llm_calls' = IF svc_pc' = "driver_llm" THEN llm_calls + 1
                            ELSE llm_calls
    /\ UNCHANGED max_turns
    /\ UNCHANGED <<stateVars, workerVars, harnessVars, resolverVars,
                   heuristicVars,
                   standaloneVars, tenantVars, taskVars, lock_holder,
                   readVars, returned>>

\* The LLM call that generate_conversation awaits returns.
LLMReturns ==
    \E text \in Texts :
        OpeningResponse(text) \/ DriverResponse(text) \/ DispatcherResponse(text)

\* LLMService.generate_response raised: generate_conversation does not catch,
\* the exception leaves it and nothing is returned.
ResponseRaises ==
    /\ svc_pc \in {"opening_llm", "driver_llm", "dispatcher_llm"}
    /\ svc_pc' = "raised"
    /\ UNCHANGED <<max_turns, turn_num, conversation, llm_calls>>
    /\ UNCHANGED <<stateVars, workerVars, harnessVars, resolverVars,
                   heuristicVars,
                   standaloneVars, tenantVars, taskVars, lock_holder,
                   readVars, returned>>

----------------------------------------------------------------------------
(* ConversationState used directly, one operation after the other *)

\* messages kept in the history / aclose() calls per session, when the state
\* object is driven directly
MaxMessages == 2
MaxAclose == 2

Speakers == {DispatcherSpeaker, DriverSpeaker}
MessageTexts == {"Initiated greeting"}

CallReset ==
    /\ pc = "direct"
    /\ prev' = state /\ last_op' = "reset"
    /\ last_arg' = None
    /\ last_raising' = {} /\ last_raised' = FALSE
    /\ last_closed' = <<>>
    /\ state' = Reset(state)
    /\ returned' = AfterReset(returned)
    /\ comparable' = FALSE
    /\ UNCHANGED <<aclose_calls, serviceVars>>
    /\ UNCHANGED <<workerVars, resolverVars, heuristicVars,
                   standaloneVars, tenantVars, taskVars, lock_holder,
                   count, context,
                   state_dict>>

CallSetConcluded(value) ==
    /\ pc = "direct"
    /\ prev' = state /\ last_op' = "set_concluded"
    /\ last_arg' = value
    /\ last_raising' = {} /\ last_raised' = FALSE
    /\ last_closed' = <<>>
    /\ state' = SetConcluded(state, value)
    /\ UNCHANGED <<aclose_calls, serviceVars>>
    /\ UNCHANGED <<workerVars, resolverVars, heuristicVars,
                   standaloneVars, tenantVars, taskVars, lock_holder,
                   readVars, returned>>

CallSetDispatcherSession(session) ==
    /\ pc = "direct"
    /\ prev' = state /\ last_op' = "set_dispatcher_session"
    /\ last_arg' = session
    /\ last_raising' = {} /\ last_raised' = FALSE
    /\ last_closed' = <<>>
    /\ state' = SetDispatcherSession(state, session)
    /\ UNCHANGED <<aclose_calls, serviceVars>>
    /\ UNCHANGED <<workerVars, resolverVars, heuristicVars,
                   standaloneVars, tenantVars, taskVars, lock_holder,
                   readVars, returned>>

CallSetDriverSession(session) ==
    /\ pc = "direct"
    /\ prev' = state /\ last_op' = "set_driver_session"
    /\ last_arg' = session
    /\ last_raising' = {} /\ last_raised' = FALSE
    /\ last_closed' = <<>>
    /\ state' = SetDriverSession(state, session)
    /\ UNCHANGED <<aclose_calls, serviceVars>>
    /\ UNCHANGED <<workerVars, resolverVars, heuristicVars,
                   standaloneVars, tenantVars, taskVars, lock_holder,
                   readVars, returned>>

CallSetRoom(r) ==
    /\ pc = "direct"
    /\ prev' = state /\ last_op' = "set_room"
    /\ last_arg' = r
    /\ last_raising' = {} /\ last_raised' = FALSE
    /\ last_closed' = <<>>
    /\ state' = SetRoom(state, r)
    /\ UNCHANGED <<aclose_calls, serviceVars>>
    /\ UNCHANGED <<workerVars, resolverVars, heuristicVars,
                   standaloneVars, tenantVars, taskVars, lock_holder,
                   readVars, returned>>

CallAddMessage(speaker, message) ==
    /\ pc = "direct"
    /\ Len(state.messages) < MaxMessages
    /\ prev' = state /\ last_op' = "add_message"
    /\ last_arg' = <<speaker, message>>
    /\ last_raising' = {} /\ last_raised' = FALSE
    /\ last_closed' = <<>>
    /\ state' = AddMessage(state, speaker, message)
    /\ returned' = AfterAppend(returned, speaker, message)
    /\ UNCHANGED <<aclose_calls, serviceVars>>
    /\ UNCHANGED <<workerVars, resolverVars, heuristicVars,
                   standaloneVars, tenantVars, taskVars, lock_holder, readVars>>

\* counts passed to get_last_messages: 0..MaxCount
MaxCount == 3

\* Messages passed to add_message: the greeting and the driver's reply as
\* the worker records them (multi_agent_worker.py lines 247 and 296), and a
\* message whose text has a line end in it.
RecordedMessages ==
    { <<DispatcherSpeaker, "Initiated greeting">>,
      <<DriverSpeaker, "Responded to dispatcher">>,
      <<DriverSpeaker, "Copy that.\nDock 4.">> }

\* get_messages(): the caller keeps the list it is handed.
CallGetMessages ==
    /\ pc = "direct"
    /\ prev' = state /\ last_op' = "get_messages"
    /\ last_arg' = None
    /\ last_raising' = {} /\ last_raised' = FALSE
    /\ last_closed' = <<>>
    /\ returned' = GetMessagesReturn(state)
    /\ comparable' = TRUE
    /\ UNCHANGED <<stateVars, serviceVars>>
    /\ UNCHANGED <<workerVars, resolverVars, heuristicVars,
                   standaloneVars, tenantVars, taskVars, lock_holder,
                   count, context,
                   state_dict>>

\* get_last_messages(n): a slice is a new list.
CallGetLastMessages(n) ==
    /\ pc = "direct"
    /\ prev' = state /\ last_op' = "get_last_messages"
    /\ last_arg' = None
    /\ last_raising' = {} /\ last_raised' = FALSE
    /\ last_closed' = <<>>
    /\ count' = n
    /\ returned' = [aliased |-> FALSE, items |-> GetLastMessages(state, n)]
    /\ comparable' = FALSE
    /\ UNCHANGED <<stateVars, serviceVars>>
    /\ UNCHANGED <<workerVars, resolverVars, heuristicVars,
                   standaloneVars, tenantVars, taskVars, lock_holder,
                   context, state_dict>>

CallFormatConversationContext ==
    /\ pc = "direct"
    /\ prev' = state /\ last_op' = "format_conversation_context"
    /\ last_arg' = None
    /\ last_raising' = {} /\ last_raised' = FALSE
    /\ last_closed' = <<>>
    /\ context' = FormatConversationContext(state)
    /\ UNCHANGED <<stateVars, serviceVars>>
    /\ UNCHANGED <<workerVars, resolverVars, heuristicVars,
                   standaloneVars, tenantVars, taskVars, lock_holder,
                   count, comparable,
                   returned, state_dict>>

\* disconnect_all() acquires the free lock and runs up to its first await:
\* the aclose() of the dispatcher's session if there is one, else of the
\* driver's; with neither it releases the lock at once.
DisconnectAllBegins ==
    /\ pc = "direct"
    /\ lock_holder = NoHolder
    /\ \A h \in Handles :
          DisconnectAll(state, aclose_calls, {}).aclose_calls[h] <= MaxAclose
    /\ prev' = state /\ last_op' = "disconnect_all"
    /\ last_arg' = None
    /\ last_raising' = {} /\ last_raised' = FALSE
    /\ LET slot == NextToClose(state, "none")
       IN  /\ aclose_calls' = AcloseIssued(state, aclose_calls, slot)
           /\ lock_holder' = Holder(slot)
           /\ last_closed' = IF slot = "none" THEN <<>> ELSE <<slot>>
    /\ UNCHANGED <<state, serviceVars>>
    /\ UNCHANGED <<workerVars, resolverVars, heuristicVars,
                   standaloneVars, tenantVars, taskVars, readVars, returned>>

\* The awaited aclose() returned, or raised and was swallowed by the bare
\* except: after the dispatcher's, the driver's session is closed if there
\* is one; then the lock is released.
AcloseDone(raised) ==
    /\ pc = "direct"
    /\ lock_holder # NoHolder
    /\ last_raising' = IF raised THEN last_raising \cup {state[lock_holder.slot]}
                       ELSE last_raising
    /\ LET result == AcloseReturns(state, lock_holder.slot, raised)
       IN  /\ last_raised' = result.raised
           /\ aclose_calls' = AcloseIssued(state, aclose_calls, result.next)
           /\ lock_holder' = Holder(result.next)
           /\ last_closed' = IF result.next = "none" THEN last_closed
                             ELSE Append(last_closed, result.next)
    /\ UNCHANGED <<state, serviceVars, last_op, prev, last_arg>>
    /\ UNCHANGED <<workerVars, resolverVars, heuristicVars,
                   standaloneVars, tenantVars, taskVars, readVars, returned>>

\* get_state_dict(): a plain method, it takes no lock and runs whenever it is
\* called.
CallGetStateDict ==
    /\ pc = "direct"
    /\ prev' = state /\ last_op' = "get_state_dict"
    /\ last_arg' = None
    /\ last_raising' = {} /\ last_raised' = FALSE
    /\ last_closed' = <<>>
    /\ state_dict' = GetStateDict(state)
    /\ UNCHANGED <<stateVars, serviceVars>>
    /\ UNCHANGED <<workerVars, resolverVars, heuristicVars,
                   standaloneVars, tenantVars, taskVars, lock_holder,
                   count, context, comparable,
                   returned>>

----------------------------------------------------------------------------
(* Specification of the worker process *)

ServiceOff ==
    /\ svc_pc = "off"
    /\ max_turns = 0
    /\ turn_num = 0
    /\ conversation = <<>>
    /\ llm_calls = 0

WorkerIdle ==
    /\ pc = "idle"
    /\ turn_count = 0
    /\ start_time = 0
    /\ now = 0
    /\ exit_reason = "none"
    /\ calls = 0
    /\ gen_calls = [h \in Handles |-> 0]
    /\ signals = [r \in Roles |-> 0]
    /\ reply = "none"
    /\ reply_text = NoText
    /\ first_signal = NoFirstSignal

ResolverOff ==
    /\ room_metadata = Str("")
    /\ attempt = 0
    /\ responses = <<>>
    /\ dispatcher_config = EmptyDict
    /\ driver_config = EmptyDict
    /\ api_client = "none"
    /\ asyncio_bound = FALSE

HeuristicOff ==
    /\ arg_text = <<>>
    /\ arg_words = 0
    /\ arg_closing = FALSE
    /\ verdict = FALSE

StandaloneOff ==
    /\ sa_role = "none"
    /\ elapsed = 0

ReadsOff ==
    /\ lock_holder = NoHolder
    /\ returned = NoList
    /\ count = 0
    /\ context = <<>>
    /\ comparable = FALSE
    /\ state_dict = None

TenantsOff ==
    /\ conv = [c \in Conversations |-> ConvIdle]

TasksOff ==
    /\ task_pc = [t \in Tasks |-> "idle"]
    /\ lock_owner = "none"
    /\ lock_waiters = <<>>

HarnessOff ==
    /\ last_op = "none"
    /\ prev = InitialState
    /\ last_raising = {}
    /\ last_raised = FALSE
    /\ last_arg = None
    /\ last_closed = <<>>

Init ==
    /\ state = InitialState
    /\ aclose_calls = [h \in Handles |-> 0]
    /\ WorkerIdle
    /\ ServiceOff
    /\ HarnessOff
    /\ ResolverOff
    /\ HeuristicOff
    /\ StandaloneOff
    /\ ReadsOff
    /\ TenantsOff
    /\ TasksOff

Next ==
    \/ \E attached \in {Str(""), Str(BlobBoth)} : StartCall(attached)
    \/ DispatcherSessionStarted
    \/ DriverSessionStarted
    \/ \E outcome \in {"ok", "error"}, d \in GenDurations, produced \in ReplyTexts :
            ReplyCompletes(outcome, d, produced)
    \/ OpeningReplyReturns
    \/ OpeningReplyRaises
    \/ DriverPacingDone
    \/ DriverReplyReturns
    \/ DriverReplyRaises
    \/ DispatcherPacingDone
    \/ DispatcherReplyReturns
    \/ DispatcherReplyRaises
    \/ \E role \in Roles, raising \in SUBSET Handles :
            EndConversation(role, raising)

Spec == Init /\ [][Next]_vars

\* The worker under the scheduling asyncio gives it: an awaited call that
\* completes resumes the coroutine.
FairSpec == Spec /\ WF_vars(Next)

----------------------------------------------------------------------------
(* Specification of a worker process that runs one standalone agent per job *)

NextStandalone ==
    \/ \E role \in Roles : StandaloneEntrypoint(role)
    \/ StandaloneSessionStarted
    \/ StandaloneGreetingIssued
    \/ StandaloneGreetingReturns
    \/ StandaloneGreetingRaises
    \/ StandalonePollDone
    \/ StandaloneLockGranted
    \/ StandaloneRegistered
    \/ StandaloneEndConversation
    \/ \E raised \in BOOLEAN : StandaloneAcloseDone(raised)

SpecStandalone == Init /\ [][NextStandalone]_vars

\* The standalone agent when the event loop runs: an asyncio.sleep(0.5) of
\* the monitoring loop that is due completes and a released lock goes to the
\* coroutine waiting for it.  The aclose() that disconnect_all() awaits is
\* the session's own: when it returns is not the event loop's to decide, and
\* the code sets no time limit on it.
FairStandalone ==
    /\ SpecStandalone
    /\ WF_vars(StandalonePollDone)
    /\ WF_vars(StandaloneLockGranted)

----------------------------------------------------------------------------
(* Specification of entrypoint up to the opening turn *)

Room(name, metadata) == [name |-> name, metadata |-> metadata]

\* What one list_rooms call may show: the call's room missing, listed
\* without metadata or listed with metadata, after another room or alone.
RoomListings ==
    LET other == Room(OtherRoomName, Str(BlobOtherRoom))
        own == {Room(RoomName, Str(m)) : m \in MetadataBlobs \cup {""}}
    IN  {<<>>, <<other>>} \cup {<<r>> : r \in own}
            \cup {<<other, r>> : r \in own}

NextResolver ==
    \/ \E attached \in {Str(m) : m \in MetadataBlobs \cup {""}} \cup {NoneValue},
          credentials \in BOOLEAN :
            Entrypoint(attached, credentials)
    \/ \E rooms \in RoomListings : ListRoomsReturns(rooms)
    \/ ListRoomsRaises
    \/ RetrySleepDone
    \/ \E raised \in BOOLEAN : ApiCloseDone(raised)
    \/ DispatcherSessionStarted
    \/ DriverSessionStarted

SpecResolver == Init /\ [][NextResolver]_vars

----------------------------------------------------------------------------
(* Specification of one generate_conversation call *)

InitService ==
    /\ state = InitialState
    /\ aclose_calls = [h \in Handles |-> 0]
    /\ pc = "off"
    /\ turn_count = 0
    /\ start_time = 0
    /\ now = 0
    /\ exit_reason = "none"
    /\ calls = 0
    /\ gen_calls = [h \in Handles |-> 0]
    /\ signals = [r \in Roles |-> 0]
    /\ reply = "none"
    /\ reply_text = NoText
    /\ first_signal = NoFirstSignal
    /\ svc_pc = "ready"
    /\ max_turns = 0
    /\ turn_num = 0
    /\ conversation = <<>>
    /\ llm_calls = 0
    /\ HarnessOff
    /\ ResolverOff
    /\ HeuristicOff
    /\ StandaloneOff
    /\ ReadsOff
    /\ TenantsOff
    /\ TasksOff

NextService ==
    \/ \E mt \in 0..MaxTurnsArg : GenerateConversation(mt)
    \/ \E text \in Texts : OpeningResponse(text)
    \/ \E text \in Texts : DriverResponse(text)
    \/ \E text \in Texts : DispatcherResponse(text)
    \/ ResponseRaises

SpecService == InitService /\ [][NextService]_vars

\* generate_conversation when every awaited LLM call completes.
FairService == SpecService /\ WF_vars(LLMReturns)

\* Both turn loops: the worker's and the service's.
SpecTurns == (Init \/ InitService) /\ [][Next \/ NextService]_vars

----------------------------------------------------------------------------
(* Specification of _is_conversation_complete on its own *)

InitHeuristic ==
    /\ state = InitialState
    /\ aclose_calls = [h \in Handles |-> 0]
    /\ pc = "off"
    /\ turn_count = 0
    /\ start_time = 0
    /\ now = 0
    /\ exit_reason = "none"
    /\ calls = 0
    /\ gen_calls = [h \in Handles |-> 0]
    /\ signals = [r \in Roles |-> 0]
    /\ reply = "none"
    /\ reply_text = NoText
    /\ first_signal = NoFirstSignal
    /\ svc_pc = "text"
    /\ max_turns = 0
    /\ turn_num = 0
    /\ conversation = <<>>
    /\ llm_calls = 0
    /\ HarnessOff
    /\ ResolverOff
    /\ \E seed \in SeedCases :
          /\ arg_text = seed.text
          /\ arg_words = seed.words
          /\ arg_closing = seed.closing
    /\ verdict = FALSE
    /\ StandaloneOff
    /\ ReadsOff
    /\ TenantsOff
    /\ TasksOff

NextHeuristic ==
    \/ AppendFillerWord
    \/ CallIsConversationComplete

SpecHeuristic == InitHeuristic /\ [][NextHeuristic]_vars

----------------------------------------------------------------------------
(* Specification of ConversationState driven directly *)

InitState ==
    /\ state = InitialState
    /\ aclose_calls = [h \in Handles |-> 0]
    /\ pc = "direct"
    /\ turn_count = 0
    /\ start_time = 0
    /\ now = 0
    /\ exit_reason = "none"
    /\ calls = 0
    /\ gen_calls = [h \in Handles |-> 0]
    /\ signals = [r \in Roles |-> 0]
    /\ reply = "none"
    /\ reply_text = NoText
    /\ first_signal = NoFirstSignal
    /\ ServiceOff
    /\ HarnessOff
    /\ ResolverOff
    /\ HeuristicOff
    /\ StandaloneOff
    /\ ReadsOff
    /\ TenantsOff
    /\ TasksOff

\* disconnect_all() runs by its awaits; every other operation takes the
\* lock, so it starts only when no disconnect_all() is suspended holding it.
NextState ==
    \/ lock_holder = NoHolder /\ CallReset
    \/ lock_holder = NoHolder /\ \E value \in BOOLEAN : CallSetConcluded(value)
    \/ lock_holder = NoHolder /\
          \E session \in Handles \cup {None} : CallSetDispatcherSession(session)
    \/ lock_holder = NoHolder /\
          \E session \in Handles \cup {None} : CallSetDriverSession(session)
    \/ lock_holder = NoHolder /\ \E r \in {"room", None} : CallSetRoom(r)
    \/ lock_holder = NoHolder /\
          \E speaker \in Speakers, message \in MessageTexts :
              CallAddMessage(speaker, message)
    \/ DisconnectAllBegins
    \/ \E raised \in BOOLEAN : AcloseDone(raised)

SpecState == InitState /\ [][NextState]_vars

----------------------------------------------------------------------------
(* Specification of the message history of ConversationState *)

NextHistory ==
    \/ CallReset
    \/ \E m \in RecordedMessages : CallAddMessage(m[1], m[2])
    \/ CallGetMessages
    \/ \E n \in 0..MaxCount : CallGetLastMessages(n)
    \/ CallFormatConversationContext

SpecHistory == InitState /\ [][NextHistory]_vars

----------------------------------------------------------------------------
(* Specification of ConversationState used by several tasks: an operation
   that takes the lock starts only when the lock is free *)

NextLock ==
    \/ lock_holder = NoHolder /\ CallReset
    \/ lock_holder = NoHolder /\ \E value \in BOOLEAN : CallSetConcluded(value)
    \/ lock_holder = NoHolder /\ CallSetDispatcherSession("dispatcher_session")
    \/ lock_holder = NoHolder /\ CallSetDriverSession("driver_session")
    \/ lock_holder = NoHolder /\
          CallAddMessage(DispatcherSpeaker, "Initiated greeting")
    \/ DisconnectAllBegins
    \/ \E raised \in BOOLEAN : AcloseDone(raised)
    \/ CallGetStateDict

SpecLock == InitState /\ [][NextLock]_vars

----------------------------------------------------------------------------
(* Specification of several conversations run by one process: each is a call
   of the worker's entrypoint on the state get_shared_state() returns *)

\* get_shared_state(): the module-level _shared_state, whichever conversation
\* asks.
GetSharedState(c) == state

MaxConvTurns == 2

\* Positions of conversation c at which its loop runs or its opening reply
\* is awaited.
ConvInConversation(c) ==
    conv[c].pc \in {"opening_gen", "sleep1", "driver_gen", "sleep2", "disp_gen"}

\* The head of the while loop for a conversation whose state is s: it leaves
\* the loop when the state is concluded or the time is up.
ConvLoopHead(c, s, timed_out) ==
    IF IsConcluded(s) \/ timed_out THEN "returned" ELSE "sleep1"

ConvFrame ==
    UNCHANGED <<workerVars, serviceVars, harnessVars, resolverVars,
                heuristicVars, standaloneVars, taskVars, lock_holder,
                readVars, returned>>

\* entrypoint up to line 195 for conversation c, a job for a room whose
\* attached metadata is `attached`: metadata resolved, both sessions
\* created, dispatcher_session.start() awaited.  The import of line 50 binds
\* the local name asyncio only when the branch of line 43 runs.
ConvEntrypoint(c, attached) ==
    /\ conv[c].pc = "idle"
    /\ conv' = [conv EXCEPT ![c].pc = AfterResolution(attached).pc,
                            ![c].asyncio_bound = ~Truthy(attached)]
    /\ UNCHANGED <<state, aclose_calls>>
    /\ ConvFrame

\* Lines 195-213: the dispatcher's session has started,
\* driver_session.start() is awaited.
ConvDispatcherSessionStarted(c) ==
    /\ conv[c].pc = "start_disp"
    /\ conv' = [conv EXCEPT ![c].pc = "start_drv"]
    /\ UNCHANGED <<state, aclose_calls>>
    /\ ConvFrame

\* Lines 213-243: the driver's session has started; the shared state is
\* reset and the opening generate_reply() is issued.
ConvReset(c) ==
    /\ conv[c].pc = "start_drv"
    /\ state' = Reset(GetSharedState(c))
    /\ conv' = [conv EXCEPT ![c].pc = "opening_gen"]
    /\ UNCHANGED aclose_calls
    /\ ConvFrame

\* Lines 244-270: the opening reply returned or raised.  After the
\* greeting is recorded line 259 reads the local name asyncio and raises
\* UnboundLocalError when it is not bound.
ConvOpeningReplyReturns(c, outcome, timed_out) ==
    /\ conv[c].pc = "opening_gen"
    /\ IF outcome = "ok"
       THEN LET s == AddMessage(GetSharedState(c), DispatcherSpeaker,
                                "Initiated greeting")
            IN  /\ state' = s
                /\ conv' = [conv EXCEPT
                              ![c].pc = IF conv[c].asyncio_bound
                                        THEN ConvLoopHead(c, s, timed_out)
                                        ELSE "raised"]
       ELSE /\ UNCHANGED state
            /\ conv' = [conv EXCEPT ![c].pc = "returned"]
    /\ UNCHANGED aclose_calls
    /\ ConvFrame

\* Lines 270-293: the pacing delay is over, the driver's generate_reply()
\* is issued.
ConvDriverPacingDone(c) ==
    /\ conv[c].pc = "sleep1"
    /\ conv' = [conv EXCEPT ![c].pc = "driver_gen"]
    /\ UNCHANGED <<state, aclose_calls>>
    /\ ConvFrame

\* Lines 293-309: the driver's reply returned or raised; its record and the
\* check of the concluded flag.
ConvDriverTurn(c, outcome) ==
    /\ conv[c].pc = "driver_gen"
    /\ IF outcome = "ok"
       THEN LET s == AddMessage(GetSharedState(c), DriverSpeaker,
                                "Responded to dispatcher")
            IN  /\ state' = s
                /\ conv' = [conv EXCEPT
                              ![c].pc = IF IsConcluded(s) THEN "returned"
                                        ELSE "sleep2",
                              ![c].turn_count = @ + 1]
       ELSE /\ UNCHANGED state
            /\ conv' = [conv EXCEPT ![c].pc = "returned"]
    /\ UNCHANGED aclose_calls
    /\ ConvFrame

\* Lines 310-332: the pacing delay is over, the dispatcher's
\* generate_reply() is issued.
ConvDispatcherPacingDone(c) ==
    /\ conv[c].pc = "sleep2"
    /\ conv' = [conv EXCEPT ![c].pc = "disp_gen"]
    /\ UNCHANGED <<state, aclose_calls>>
    /\ ConvFrame

\* Lines 332-350 and the loop head: the dispatcher's reply returned or
\* raised; its record.  A conversation that has had MaxConvTurns turns runs
\* out of time.
ConvDispatcherTurn(c, outcome, timed_out) ==
    /\ conv[c].pc = "disp_gen"
    /\ conv[c].turn_count + 1 >= MaxConvTurns => timed_out
    /\ IF outcome = "ok"
       THEN LET s == AddMessage(GetSharedState(c), DispatcherSpeaker,
                                "Responded to driver")
            IN  /\ state' = s
                /\ conv' = [conv EXCEPT ![c].pc = ConvLoopHead(c, s, timed_out),
                                        ![c].turn_count = @ + 1]
       ELSE /\ UNCHANGED state
            /\ conv' = [conv EXCEPT ![c].pc = "returned"]
    /\ UNCHANGED aclose_calls
    /\ ConvFrame

\* An agent of conversation c calls end_conversation while a reply of the
\* conversation is in flight: set_concluded(True), then disconnect_all().
ConvEndConversation(c) ==
    /\ ConvInConversation(c)
    /\ conv[c].signals < MaxSignals
    /\ LET s == SetConcluded(GetSharedState(c), TRUE)
       IN  /\ state' = s
           /\ aclose_calls' = DisconnectAll(s, aclose_calls, {}).aclose_calls
    /\ conv' = [conv EXCEPT ![c].signals = @ + 1]
    /\ ConvFrame

NextTenants ==
    \E c \in Conversations :
        \/ \E attached \in {Str(""), Str(BlobBoth)} : ConvEntrypoint(c, attached)
        \/ ConvDispatcherSessionStarted(c)
        \/ ConvReset(c)
        \/ \E outcome \in {"ok", "error"}, timed_out \in BOOLEAN :
                ConvOpeningReplyReturns(c, outcome, timed_out)
        \/ ConvDriverPacingDone(c)
        \/ \E outcome \in {"ok", "error"} : ConvDriverTurn(c, outcome)
        \/ ConvDispatcherPacingDone(c)
        \/ \E outcome \in {"ok", "error"}, timed_out \in BOOLEAN :
                ConvDispatcherTurn(c, outcome, timed_out)
        \/ ConvEndConversation(c)

SpecTenants == InitState /\ [][NextTenants]_vars

----------------------------------------------------------------------------
(* Specification of the state lock used by the tasks of one conversation:
   the scheduler, which is the loop of multi_agent_worker.entrypoint (lines
   262-350), and the two agents' end_conversation tools.  `async with lock`
   takes a free lock at once; otherwise the task waits in line and is handed
   the lock when its turn comes *)

RoleOf(t) == IF t = "dispatcher_agent" THEN "dispatcher" ELSE "driver"

\* The lock is free and nobody waits for it.
LockFree == lock_owner = "none" /\ lock_waiters = <<>>

\* Leaving `async with` with the lock held and nobody waiting
Release_NoWakeUp(waiters) == [owner |-> "none", waiters |-> waiters]

\* Leaving `async with`: the lock goes to the task that waited longest.
Release(waiters) ==
    IF waiters = <<>> THEN [owner |-> "none", waiters |-> <<>>]
    ELSE [owner |-> Head(waiters), waiters |-> Tail(waiters)]

\* The position of a task whose disconnect_all() awaits the aclose() of the
\* session in `slot`, or has nothing left to close.
ClosingPosition(slot) ==
    IF slot = "dispatcher_session" THEN "closing_dispatcher"
    ELSE IF slot = "driver_session" THEN "closing_driver"
    ELSE "returned"

\* The turn the scheduler is at: the loop's turns alternate, the driver's
\* first (lines 293-297 and 332-336).
TurnSession == IF turn_count % 2 = 0 THEN "driver_session"
               ELSE "dispatcher_session"
TurnSpeaker == IF turn_count % 2 = 0 THEN DriverSpeaker ELSE DispatcherSpeaker
TurnMessage == IF turn_count % 2 = 0 THEN "Responded to dispatcher"
               ELSE "Responded to driver"

TaskFrame ==
    UNCHANGED <<pc, start_time, calls, reply, reply_text, first_signal,
                serviceVars, harnessVars, resolverVars, heuristicVars,
                standaloneVars, tenantVars, lock_holder, count, comparable,
                state_dict, returned>>

\* What a step of an agent leaves alone of the scheduler's locals.
SchedulerLocals ==
    UNCHANGED <<turn_count, now, exit_reason, gen_calls, context>>

\* The task enters `async with lock` for an operation: it is inside at once
\* (position `inside`) or waits in line (position `waiting`).
Enter(t, inside, waiting) ==
    IF LockFree
    THEN /\ lock_owner' = t
         /\ task_pc' = [task_pc EXCEPT ![t] = inside]
         /\ UNCHANGED lock_waiters
    ELSE /\ lock_waiters' = Append(lock_waiters, t)
         /\ task_pc' = [task_pc EXCEPT ![t] = waiting]
         /\ UNCHANGED lock_owner

\* The task leaves `async with lock` and goes on at position `after`.
Leave(t, after) ==
    /\ lock_owner' = Release(lock_waiters).owner
    /\ lock_waiters' = Release(lock_waiters).waiters
    /\ task_pc' = [task_pc EXCEPT ![t] = after]

\* The scheduler's loop head calls is_concluded() (line 262).
SchedulerPolls ==
    /\ task_pc["scheduler"] = "idle"
    /\ Enter("scheduler", "is_concluded", "is_concluded_wait")
    /\ UNCHANGED <<state, aclose_calls, signals>>
    /\ SchedulerLocals
    /\ TaskFrame

\* is_concluded() of the loop head holds the lock: it reads the flag and
\* leaves.  The loop ends when the flag is set or more than 600 s have
\* elapsed, otherwise the scheduler sleeps (lines 262-270).
SchedulerReads ==
    /\ task_pc["scheduler"] \in {"is_concluded", "is_concluded_wait"}
    /\ lock_owner = "scheduler"
    /\ LET next == LoopHead(state, now, start_time)
       IN  /\ Leave("scheduler",
                    IF next.pc = "returned" THEN "returned" ELSE "sleeping")
           /\ exit_reason' = next.exit_reason
    /\ UNCHANGED <<state, aclose_calls, signals, turn_count, now, gen_calls,
                   context>>
    /\ TaskFrame

\* The pacing sleep is over: format_conversation_context() is called (lines
\* 270-276 and 309-315).
SchedulerSleepDone ==
    /\ task_pc["scheduler"] = "sleeping"
    /\ now' = now + PacingDelay
    /\ Enter("scheduler", "format_conversation_context",
             "format_conversation_context_wait")
    /\ UNCHANGED <<state, aclose_calls, signals, turn_count, exit_reason,
                   gen_calls, context>>
    /\ TaskFrame

\* format_conversation_context() holds the lock: it renders the history and
\* leaves; the agent of the turn is rebuilt and its generate_reply() is
\* issued (lines 276-293 and 315-332).
SchedulerFormats ==
    /\ task_pc["scheduler"] \in {"format_conversation_context",
                                 "format_conversation_context_wait"}
    /\ lock_owner = "scheduler"
    /\ context' = FormatConversationContext(state)
    /\ gen_calls' = [gen_calls EXCEPT ![TurnSession] = @ + 1]
    /\ Leave("scheduler", "generate_reply")
    /\ UNCHANGED <<state, aclose_calls, signals, turn_count, now,
                   exit_reason>>
    /\ TaskFrame

\* The turn's generate_reply() returned after d seconds and add_message() is
\* called, or it raised and the loop is left (lines 293-303 and 332-342).
SchedulerReplyReturns(outcome, d) ==
    /\ task_pc["scheduler"] = "generate_reply"
    /\ now' = now + d
    /\ IF outcome = "ok"
       THEN /\ Enter("scheduler", "add_message", "add_message_wait")
            /\ UNCHANGED exit_reason
       ELSE /\ task_pc' = [task_pc EXCEPT !["scheduler"] = "returned"]
            /\ exit_reason' = "turn_failed"
            /\ UNCHANGED <<lock_owner, lock_waiters>>
    /\ UNCHANGED <<state, aclose_calls, signals, turn_count, gen_calls,
                   context>>
    /\ TaskFrame

\* add_message() holds the lock: it appends the turn's message and leaves;
\* the turn is counted (lines 296-297 and 335-336).
SchedulerAdds ==
    /\ task_pc["scheduler"] \in {"add_message", "add_message_wait"}
    /\ lock_owner = "scheduler"
    /\ state' = AddMessage(state, TurnSpeaker, TurnMessage)
    /\ turn_count' = turn_count + 1
    /\ Leave("scheduler", "turn_done")
    /\ UNCHANGED <<aclose_calls, signals, now, exit_reason, gen_calls,
                   context>>
    /\ TaskFrame

\* The check after the turn calls is_concluded() (lines 305 and 344).
SchedulerChecks ==
    /\ task_pc["scheduler"] = "turn_done"
    /\ Enter("scheduler", "check", "check_wait")
    /\ UNCHANGED <<state, aclose_calls, signals>>
    /\ SchedulerLocals
    /\ TaskFrame

\* is_concluded() of the check after a turn holds the lock: it reads the
\* flag and leaves.  The loop ends when the flag is set; otherwise the
\* scheduler sleeps after the driver's turn (line 309) and is back at the
\* loop head after the dispatcher's (lines 305-309 and 344-350).
SchedulerChecked ==
    /\ task_pc["scheduler"] \in {"check", "check_wait"}
    /\ lock_owner = "scheduler"
    /\ Leave("scheduler",
             IF IsConcluded(state) THEN "returned"
             ELSE IF turn_count % 2 = 1 THEN "sleeping"
             ELSE "idle")
    /\ exit_reason' = IF IsConcluded(state) THEN "concluded" ELSE exit_reason
    /\ UNCHANGED <<state, aclose_calls, signals, turn_count, now, gen_calls,
                   context>>
    /\ TaskFrame

\* An agent's end_conversation tool is invoked: it calls
\* set_concluded(True).
AgentEndConversation(t) ==
    /\ task_pc[t] = "idle"
    /\ signals[RoleOf(t)] < MaxSignals
    /\ signals' = [signals EXCEPT ![RoleOf(t)] = @ + 1]
    /\ Enter(t, "set_concluded", "set_concluded_wait")
    /\ UNCHANGED <<state, aclose_calls>>
    /\ SchedulerLocals
    /\ TaskFrame

\* set_concluded(True) holds the lock: it sets the flag and leaves.
AgentSetsConcluded(t) ==
    /\ task_pc[t] \in {"set_concluded", "set_concluded_wait"}
    /\ lock_owner = t
    /\ state' = SetConcluded(state, TRUE)
    /\ Leave(t, "disconnect_all")
    /\ UNCHANGED <<aclose_calls, signals>>
    /\ SchedulerLocals
    /\ TaskFrame

\* end_conversation goes on to disconnect_all().
AgentCallsDisconnectAll(t) ==
    /\ task_pc[t] = "disconnect_all"
    /\ Enter(t, "disconnecting", "disconnect_all_wait")
    /\ UNCHANGED <<state, aclose_calls, signals>>
    /\ SchedulerLocals
    /\ TaskFrame

\* disconnect_all() holds the lock: it issues its first aclose() and awaits
\* it, or leaves when no session is registered.
AgentDisconnects(t) ==
    /\ task_pc[t] \in {"disconnecting", "disconnect_all_wait"}
    /\ lock_owner = t
    /\ LET next == NextToClose(state, "none")
       IN  /\ aclose_calls' = AcloseIssued(state, aclose_calls, next)
           /\ IF next = "none" THEN Leave(t, "returned")
              ELSE /\ task_pc' = [task_pc EXCEPT ![t] = ClosingPosition(next)]
                   /\ UNCHANGED <<lock_owner, lock_waiters>>
    /\ UNCHANGED <<state, signals>>
    /\ SchedulerLocals
    /\ TaskFrame

\* The aclose() disconnect_all() awaits inside the lock returns or raises
\* (the exception is caught): the driver's aclose() is issued next, or the
\* lock is left.
AgentCloseReturns(t, raised) ==
    /\ task_pc[t] \in {"closing_dispatcher", "closing_driver"}
    /\ lock_owner = t
    /\ LET slot == IF task_pc[t] = "closing_dispatcher"
                   THEN "dispatcher_session" ELSE "driver_session"
           next == AcloseReturns(state, slot, raised).next
       IN  /\ aclose_calls' = AcloseIssued(state, aclose_calls, next)
           /\ IF next = "none" THEN Leave(t, "returned")
              ELSE /\ task_pc' = [task_pc EXCEPT ![t] = ClosingPosition(next)]
                   /\ UNCHANGED <<lock_owner, lock_waiters>>
    /\ UNCHANGED <<state, signals>>
    /\ SchedulerLocals
    /\ TaskFrame

\* end_conversation returns its text to the agent's session.
AgentToolReturns(t) ==
    /\ task_pc[t] = "returned"
    /\ task_pc' = [task_pc EXCEPT ![t] = "idle"]
    /\ UNCHANGED <<state, aclose_calls, signals, lock_owner, lock_waiters>>
    /\ SchedulerLocals
    /\ TaskFrame

\* The scheduler is at its loop head for the first time: the opening
\* generate_reply() of the dispatcher's session has returned (line 244), the
\* greeting is in the history and start_time has been taken.  The
\* conversation's sessions may or may not be registered with the state.
InitTasks ==
    /\ \E d \in {None, "dispatcher_session"}, v \in {None, "driver_session"} :
          state = AddMessage(
                      SetDriverSession(SetDispatcherSession(InitialState, d), v),
                      DispatcherSpeaker, "Initiated greeting")
    /\ aclose_calls = [h \in Handles |-> 0]
    /\ pc = "direct"
    /\ turn_count = 0
    /\ start_time = 0
    /\ now = 0
    /\ exit_reason = "none"
    /\ calls = 0
    /\ gen_calls = [h \in Handles |->
                       IF h = "dispatcher_session" THEN 1 ELSE 0]
    /\ signals = [r \in Roles |-> 0]
    /\ reply = "none"
    /\ reply_text = NoText
    /\ first_signal = NoFirstSignal
    /\ ServiceOff
    /\ HarnessOff
    /\ room_metadata = Str("")
    /\ attempt = 0
    /\ responses = <<>>
    /\ dispatcher_config = EmptyDict
    /\ driver_config = EmptyDict
    /\ api_client = "none"
    /\ asyncio_bound = TRUE
    /\ HeuristicOff
    /\ StandaloneOff
    /\ ReadsOff
    /\ TenantsOff
    /\ TasksOff

\* A step of an agent's ConversationState operation that holds the lock.
AgentOperates(t) ==
    \/ AgentSetsConcluded(t)
    \/ AgentDisconnects(t)
    \/ \E raised \in BOOLEAN : AgentCloseReturns(t, raised)

\* A step of a task that is inside an operation or between the two
\* operations of end_conversation.
AgentContinues(t) ==
    \/ AgentOperates(t)
    \/ AgentCallsDisconnectAll(t)
    \/ AgentToolReturns(t)

\* A step of a scheduler's ConversationState operation that holds the lock.
SchedulerOperates ==
    \/ SchedulerReads
    \/ SchedulerFormats
    \/ SchedulerAdds
    \/ SchedulerChecked

\* A step of the scheduler past the call of is_concluded() at the loop head.
SchedulerContinues ==
    \/ SchedulerOperates
    \/ SchedulerSleepDone
    \/ \E outcome \in {"ok", "error"}, d \in GenDurations :
          SchedulerReplyReturns(outcome, d)
    \/ SchedulerChecks

NextTasks ==
    \/ SchedulerPolls
    \/ SchedulerContinues
    \/ \E t \in AgentTasks : AgentEndConversation(t) \/ AgentContinues(t)

SpecTasks == InitTasks /\ [][NextTasks]_vars

\* The event loop runs every task that holds the lock, and every aclose()
\* that is awaited returns or raises.
FairTasks ==
    /\ SpecTasks
    /\ WF_vars(SchedulerOperates)
    /\ \A t \in AgentTasks : WF_vars(AgentOperates(t))

----------------------------------------------------------------------------
(* Properties *)

Messages == state.messages
Elapsed == now - start_time
GenInFlight == pc \in {"opening_gen", "driver_gen", "disp_gen"}
NoSignal == \A r \in Roles : signals[r] = 0
TotalGenCalls == gen_calls["dispatcher_session"] + gen_calls["driver_session"]

\* C1: in both turn loops the recorded turns alternate, dispatcher first: the
\* turn at every even 0-based index (odd position here, sequences being
\* 1-based) is the dispatcher's, every other one the driver's.
C1_TurnsAlternate ==
    /\ \A i \in 1..Len(Messages) :
          Messages[i].speaker =
              IF i % 2 = 1 THEN DispatcherSpeaker ELSE DriverSpeaker
    /\ \A i \in 1..Len(conversation) :
          conversation[i].speaker = IF i % 2 = 1 THEN "Dispatcher" ELSE "Driver"

C1_Witness ==
    /\ pc = "returned"
    /\ Len(Messages) >= 5
    /\ Messages[4].speaker = DriverSpeaker

\* C2 as stated: no generate_reply() is issued while concluded is true,
\* whenever the end signal fired.
C2_NoGenerationWhileConcluded ==
    [][(\E h \in Handles : gen_calls'[h] > gen_calls[h])
          => ~IsConcluded(state')]_vars

\* C2 as amended: the worker reads is_concluded() after every turn; when a
\* turn's generate_reply() has completed and concluded is true (the signal
\* fired during that turn or during the delay before it), the worker leaves
\* the loop and issues no further generate_reply(): entrypoint returns, or
\* has raised before the loop.
C2_ConcludedStopsAfterTurn ==
    [][(GenInFlight /\ pc' # pc /\ IsConcluded(state))
          => pc' \in {"returned", "raised"}]_vars

C2_Witness ==
    /\ pc = "returned"
    /\ exit_reason = "concluded"
    /\ IsConcluded(state)
    /\ turn_count >= 2
    /\ reply = "ok"

\* C3: once an agent's end_conversation has run, concluded is true and
\* aclose() has been called on both sessions of the conversation.
C3_EndConversationClosesBoth ==
    \A r \in Roles :
        signals[r] > 0 =>
            /\ IsConcluded(state)
            /\ aclose_calls["dispatcher_session"] > 0
            /\ aclose_calls["driver_session"] > 0

\* C4: when the opening generate_reply() is in flight, both session handles
\* are registered in the shared state.
C4_HandlesRegisteredAtOpening ==
    pc = "opening_gen" =>
        /\ GetDispatcherSession(state) # None
        /\ GetDriverSession(state) # None

\* C5: between two reset() calls concluded never goes from true to false.
\* reset() is called by the step that leaves "start_drv".
C5_ConcludedMonotonic ==
    [][(IsConcluded(state) /\ pc # "start_drv") => IsConcluded(state')]_vars

C5_Witness ==
    /\ IsConcluded(state)
    /\ signals["dispatcher"] = 1
    /\ signals["driver"] = 1
    /\ Len(Messages) >= 3

\* C6: after reset() every read observes the initial state.
C6_ResetRestoresInitialState ==
    last_op = "reset" =>
        /\ GetMessages(state) = <<>>
        /\ ~IsConcluded(state)
        /\ GetDispatcherSession(state) = None
        /\ GetDriverSession(state) = None
        /\ GetRoom(state) = None

C6_Witness ==
    /\ last_op = "reset"
    /\ prev.concluded
    /\ prev.messages # <<>>
    /\ prev.dispatcher_session # None
    /\ prev.driver_session # None
    /\ prev.room # None
    /\ state = InitialState

\* C7: once a generate_reply() of the loop has raised and the worker has
\* handled it, entrypoint has returned, the failed turn has neither a message
\* nor a turn_count increment, and it was the last generate_reply() issued.
C7_TurnFailureIsFatal ==
    (reply = "error" /\ gen_calls["driver_session"] > 0
        /\ pc \notin {"driver_gen", "disp_gen"}) =>
        /\ pc = "returned"
        /\ Len(Messages) = turn_count + 1
        /\ TotalGenCalls = Len(Messages) + 1

C7_Witness ==
    /\ reply = "error"
    /\ pc = "returned"
    /\ exit_reason = "turn_failed"
    /\ turn_count >= 2

\* C8: when the opening generate_reply() has raised, the step that handles
\* the failure returns from entrypoint without entering the loop, the
\* history empty, no turn counted and the driver session never asked for a
\* reply; and a call that ended so has an empty history and no driver turn.
C8_OpeningFailureAborts ==
    /\ [][(pc = "opening_gen" /\ reply = "error" /\ pc' # pc) =>
            /\ pc' = "returned"
            /\ Messages' = <<>>
            /\ gen_calls'["driver_session"] = 0
            /\ turn_count' = 0]_vars
    /\ []((pc = "returned" /\ reply = "error"
              /\ gen_calls["dispatcher_session"] = 1
              /\ gen_calls["driver_session"] = 0) =>
            (Messages = <<>> /\ turn_count = 0))

C8_Witness ==
    /\ reply = "error"
    /\ pc = "returned"
    /\ exit_reason = "opening_failed"
    /\ Messages = <<>>
    /\ calls = 2

\* C9: a conversation without end signal and without generation failure
\* leaves the loop, and does so by the timeout break, with more than 600 s
\* elapsed and concluded false.  A job for a room with metadata attached
\* does not: entrypoint raises at line 259, before the loop.
C9_TimesOutWithoutSignal ==
    /\ []((pc = "returned" /\ NoSignal /\ reply = "ok") =>
            (exit_reason = "timeout" /\ ~IsConcluded(state)
                /\ Elapsed > max_duration_seconds))
    /\ (pc = "opening_gen") ~>
            (\/ ~NoSignal
             \/ reply = "error"
             \/ (pc = "returned" /\ exit_reason = "timeout"
                    /\ ~IsConcluded(state)))

\* C10 as stated: no generate_reply() of the loop is issued once more than
\* 600 s have elapsed since the opening turn.
C10_NoGenerationAfterCeiling ==
    [][(pc \in {"sleep1", "sleep2"} /\ pc' \in {"driver_gen", "disp_gen"})
          => now' - start_time' <= max_duration_seconds]_vars

\* C10 as amended: the ceiling is tested once per iteration, at the loop
\* head: an iteration is started only while at most 600 s have elapsed.
C10_CeilingCheckedAtLoopHead ==
    pc = "sleep1" => Elapsed <= max_duration_seconds

C10_Witness ==
    /\ pc = "returned"
    /\ exit_reason = "timeout"
    /\ Elapsed > max_duration_seconds
    /\ turn_count >= 4

\* C11: whenever the loop has been left by conclusion or by the safety
\* timeout and entrypoint has returned, aclose() has been called on both the
\* dispatcher and the driver session of the call.
C11_TeardownAtLoopExit ==
    (pc = "returned" /\ exit_reason \in {"concluded", "timeout"}) =>
        /\ aclose_calls["dispatcher_session"] > 0
        /\ aclose_calls["driver_session"] > 0

ResolverRunning == pc \in {"list_rooms", "retry_sleep", "api_close"}
SessionsStarting == pc \in {"start_disp", "start_drv", "opening_gen"}
\* The response shows non-empty metadata for the room named like the call's.
ShowsOwnMetadata(rooms) ==
    \E j \in 1..Len(rooms) :
        rooms[j].name = RoomName /\ Truthy(rooms[j].metadata)
NoResponseShowsMetadata ==
    \A k \in 1..Len(responses) : ~ShowsOwnMetadata(responses[k])

\* C12: when the k-th list_rooms response is the first to show non-empty
\* metadata for the call's room, room_metadata is exactly that metadata; the
\* retry loop is given up without metadata only after 5 responses, and then
\* both configs are empty and entrypoint goes on to start the sessions.
C12_ResolverResult ==
    /\ (responses # <<>> /\ ShowsOwnMetadata(responses[Len(responses)])) =>
          \E j \in 1..Len(responses[Len(responses)]) :
              /\ responses[Len(responses)][j].name = RoomName
              /\ responses[Len(responses)][j].metadata = room_metadata
    /\ (pc = "api_close" /\ NoResponseShowsMetadata) =>
          /\ Len(responses) = max_retries
          /\ ~Truthy(room_metadata)
    /\ (Len(responses) = max_retries /\ NoResponseShowsMetadata
            /\ ~ResolverRunning) =>
          /\ SessionsStarting
          /\ dispatcher_config = EmptyDict
          /\ driver_config = EmptyDict

C12_Witness ==
    /\ pc = "start_disp"
    /\ Len(responses) = 4
    /\ responses[1] = <<>>
    /\ responses[3] = <<Room(RoomName, Str(""))>>
    /\ room_metadata = Str(BlobBoth)
    /\ dispatcher_config = JsonObject([prompt |-> JsonString("P1")])
    /\ driver_config = JsonObject([prompt |-> JsonString("P2")])

\* C13: at most 5 registry queries are issued; no query follows a response
\* that showed non-empty metadata for the call's room; metadata fetched from
\* the registry is that of a room named like the call's room.
C13_RetryBoundedAndStopsEarly ==
    /\ attempt < max_retries
    /\ Len(responses) <= attempt + 1
    /\ \A k \in 1..(Len(responses) - 1) : ~ShowsOwnMetadata(responses[k])
    /\ pc \in {"list_rooms", "retry_sleep"} => NoResponseShowsMetadata
    /\ (responses # <<>> /\ Truthy(room_metadata)) =>
          \E j \in 1..Len(responses[Len(responses)]) :
              /\ responses[Len(responses)][j].name = RoomName
              /\ responses[Len(responses)][j].metadata = room_metadata

C13_Witness ==
    /\ pc = "api_close"
    /\ attempt = 4
    /\ Len(responses) = 5
    /\ responses[2] = <<Room(OtherRoomName, Str(BlobOtherRoom))>>
    /\ responses[5] = <<Room(OtherRoomName, Str(BlobOtherRoom)),
                        Room(RoomName, Str(BlobEmptyObject))>>
    /\ room_metadata = Str(BlobEmptyObject)

\* C14: whatever the metadata text is, no exception leaves entrypoint because
\* of it, and with a text that is not JSON, not a JSON object, or whose
\* dispatcherAgent or driverAgent entry is not an object, both configs are
\* empty and the sessions are started.
C14_ParseNeverPropagates ==
    /\ pc # "raised"
    /\ room_metadata \in {Str(BlobNotJson), Str(BlobArray),
                          Str(BlobDispatcherNull), Str(BlobDriverString)} =>
          (~ResolverRunning =>
              /\ SessionsStarting
              /\ dispatcher_config = EmptyDict
              /\ driver_config = EmptyDict)

\* C15: when the registry gave no metadata (a query raised, the attempts were
\* exhausted, or no query could be made), entrypoint goes on to start the
\* sessions with both configs empty, that is with the built-in prompts.
C15_FetchFailureDegrades ==
    (pc \notin {"idle", "list_rooms", "retry_sleep", "api_close"}
        /\ ~Truthy(room_metadata)) =>
        /\ SessionsStarting
        /\ dispatcher_config = EmptyDict
        /\ driver_config = EmptyDict
        /\ CustomPrompt(dispatcher_config) = JsonNull
        /\ CustomPrompt(driver_config) = JsonNull

C15_Witness ==
    /\ pc = "opening_gen"
    /\ attempt = 2
    /\ Len(responses) = 2
    /\ room_metadata = Str("")
    /\ dispatcher_config = EmptyDict
    /\ driver_config = EmptyDict

\* The slots of s that hold a session, in the order disconnect_all() visits
\* them.
RegisteredSlots(s) ==
    (IF s.dispatcher_session # None THEN <<"dispatcher_session">> ELSE <<>>)
        \o (IF s.driver_session # None THEN <<"driver_session">> ELSE <<>>)

\* C16: a disconnect_all() call does not raise, and calls aclose() once on
\* every handle registered when it is called, whichever aclose() calls raise:
\* when the call has returned it has closed the session of every slot that
\* held one, once each and dispatcher first, and while it runs it has raised
\* nothing and closed a beginning of that list.
C16_DisconnectIsolatesFailures ==
    last_op = "disconnect_all" =>
        /\ ~last_raised
        /\ prev = state
        /\ IF lock_holder = NoHolder
           THEN last_closed = RegisteredSlots(prev)
           ELSE /\ Len(last_closed) <= Len(RegisteredSlots(prev))
                /\ last_closed = SubSeq(RegisteredSlots(prev), 1, Len(last_closed))
                /\ lock_holder.slot = last_closed[Len(last_closed)]

\* A call has returned in which the dispatcher's aclose() raised: the
\* driver's session was closed after it.
C16_Witness ==
    /\ last_op = "disconnect_all"
    /\ lock_holder = NoHolder
    /\ last_raising = {"dispatcher_session"}
    /\ prev.dispatcher_session = "dispatcher_session"
    /\ prev.driver_session = "driver_session"
    /\ last_closed = <<"dispatcher_session", "driver_session">>
    /\ aclose_calls["dispatcher_session"] = 1
    /\ aclose_calls["driver_session"] = 1
    /\ ~last_raised

\* C17: _is_conversation_complete(text) is true exactly when text has at
\* most 15 whitespace-separated words and contains one of the closing
\* phrases: the value returned is compared with what the caller put into
\* the text.
C17_HeuristicIffShortAndClosing ==
    svc_pc = "checked" => (verdict <=> (arg_words <= 15 /\ arg_closing))

\* A text of 40 words with a closing phrase in it has been judged not to end
\* the conversation.
C17_Witness ==
    /\ svc_pc = "checked"
    /\ arg_words = 40
    /\ arg_closing
    /\ ~verdict

\* C18 as stated: in generate_conversation a turn whose text satisfies the
\* heuristic, the opening turn included, is the last turn of the conversation.
C18_NoTurnAfterHeuristicMatch ==
    \A i \in 1..Len(conversation) :
        conversation[i].text \in ClosingTexts => i = Len(conversation)

\* C18 as amended: a turn after the opening turn whose text satisfies the
\* heuristic is the last turn, and generate_conversation has left its loop;
\* the opening turn's text is not evaluated.
C18_NoTurnAfterLoopHeuristicMatch ==
    \A i \in 2..Len(conversation) :
        conversation[i].text \in ClosingTexts =>
            /\ i = Len(conversation)
            /\ svc_pc = "returned"

C18_Witness ==
    /\ svc_pc = "returned"
    /\ max_turns = 2
    /\ turn_num = 0
    /\ Len(conversation) = 3
    /\ conversation[1].text = TextClosing
    /\ conversation[3].text = TextClosing
    /\ llm_calls = 3

\* C19: when a loop turn of the worker completes with a text that satisfies
\* the heuristic and no end_conversation was invoked, the worker leaves the
\* loop.
C19_WorkerHeuristicEndsConversation ==
    [][(pc \in {"driver_gen", "disp_gen"} /\ reply = "ok" /\ pc' # pc
            /\ NoSignal /\ IsConversationComplete(reply_text))
          => pc' = "returned"]_vars

DriverTurns ==
    Cardinality({i \in 1..Len(Messages) : Messages[i].speaker = DriverSpeaker})
DispatcherTurns ==
    Cardinality({i \in 1..Len(Messages) :
                    Messages[i].speaker = DispatcherSpeaker})

\* C20: when the call's first end_conversation is invoked by the driver during
\* its k-th turn and no generate_reply() fails, entrypoint returns with
\* exactly k driver turns and at most k dispatcher turns recorded.
C20_DriverSignalEndsAtItsTurn ==
    (pc = "returned" /\ first_signal.by = "driver_turn" /\ reply = "ok") =>
        /\ DriverTurns = first_signal.driver_turn
        /\ DispatcherTurns <= first_signal.driver_turn
        /\ exit_reason = "concluded"

C20_Witness ==
    /\ pc = "returned"
    /\ reply = "ok"
    /\ first_signal = [by |-> "driver_turn", driver_turn |-> 3]
    /\ DriverTurns = 3
    /\ DispatcherTurns = 3

\* C21: generate_conversation called with max_turns = 1 returns exactly one
\* turn, spoken by "Dispatcher".
C21_SingleTurnForMaxTurnsOne ==
    (svc_pc = "returned" /\ max_turns = 1) =>
        /\ Len(conversation) = 1
        /\ conversation[1].speaker = "Dispatcher"

----------------------------------------------------------------------------
\* C22: every entrypoint (the multi-agent worker, the standalone dispatcher,
\* the standalone driver) resets the shared state before any turn of its
\* call: when the call's sessions have been started, concluded is false and
\* the history is empty.
C22_CallStartsFromResetState ==
    [][ (pc \in {"sa_start", "start_drv"} /\ pc' \notin {"sa_start", "start_drv"})
            => (~IsConcluded(state') /\ GetMessages(state') = <<>>) ]_vars

----------------------------------------------------------------------------
\* What a caller can observe of the shared state and the worker once
\* entrypoint has returned.
Observation ==
    [concluded |-> IsConcluded(state), messages |-> GetMessages(state),
     turn_count |-> turn_count]

\* The observation after the greeting and two full loop iterations, with no
\* conclusion signalled.
AfterTwoIterations ==
    [concluded |-> FALSE,
     messages |->
        << [speaker |-> DispatcherSpeaker, message |-> "Initiated greeting"],
           [speaker |-> DriverSpeaker, message |-> "Responded to dispatcher"],
           [speaker |-> DispatcherSpeaker, message |-> "Responded to driver"],
           [speaker |-> DriverSpeaker, message |-> "Responded to dispatcher"],
           [speaker |-> DispatcherSpeaker, message |-> "Responded to driver"] >>,
     turn_count |-> 4]

EndedWith(reason, observation) ==
    pc = "returned" /\ exit_reason = reason /\ Observation = observation

\* C23: the final observable state (concluded flag, message history, turn
\* count) tells how the worker's conversation ended: the state left after
\* two loop iterations is not left both by a call that ended on the safety
\* timeout and by a call that ended on a failed turn.
C23_OutcomeReadableFromFinalState ==
    \/ []~EndedWith("timeout", AfterTwoIterations)
    \/ []~EndedWith("turn_failed", AfterTwoIterations)

----------------------------------------------------------------------------
IsPrefix(a, b) == Len(a) <= Len(b) /\ SubSeq(b, 1, Len(a)) = a

\* C24: between resets the history is append-only and keeps its order: every
\* operation other than reset() leaves the old history as a prefix of the new
\* one, and a get_messages() snapshot taken earlier in the same epoch is a
\* prefix of the snapshot taken now.
C24_HistoryAppendOnly ==
    [][ /\ (last_op' # "reset")
            => IsPrefix(GetMessages(state), GetMessages(state'))
        /\ (comparable /\ last_op' = "get_messages")
            => IsPrefix(returned.items, returned'.items) ]_vars

\* A snapshot of a non-empty history was taken, then a message was added.
C24_Witness ==
    /\ last_op = "add_message"
    /\ comparable
    /\ returned.items # <<>>
    /\ returned.items = GetMessages(prev)

\* C25: the list get_messages() returned is a snapshot: a later add_message()
\* or reset() leaves its items as they were.
C25_SnapshotUnaffected ==
    [][ (last_op' \in {"add_message", "reset"})
            => returned'.items = returned.items ]_vars

\* A message was added after a snapshot of a non-empty history was taken:
\* the history is one longer than the snapshot.
C25_Witness ==
    /\ last_op = "add_message"
    /\ comparable
    /\ Len(returned.items) >= 1
    /\ Len(GetMessages(state)) = Len(returned.items) + 1

\* The last min(n, Len(h)) entries of h.
LastEntries(h, n) ==
    LET k == IF n < Len(h) THEN n ELSE Len(h)
    IN  [i \in 1..k |-> h[Len(h) - k + i]]

\* C26: get_last_messages(n) returns the last min(n, len) entries of the
\* history for every n >= 0: nothing for n = 0, the whole history when n is
\* at least its length.
C26_LastMessagesAreTheLastN ==
    (last_op = "get_last_messages")
        => returned.items = LastEntries(GetMessages(state), count)

\* The position in a rendered context where the entry of each of the messages
\* first..last stops, the text before them stopping at base.
RECURSIVE LineStops(_, _, _, _)
LineStops(h, first, last, base) ==
    IF first > last THEN <<>>
    ELSE IF first = last
    THEN <<base + Len(Chars(h[first].speaker))
                + Len(Chars(h[first].message)) + 5>>
    ELSE LET mid == (first + last) \div 2
             left == LineStops(h, first, mid, base)
         IN  left \o LineStops(h, mid + 1, last, left[Len(left)])

\* The positions of the line ends of a text, and its k-th line without the
\* line end.
LineEnds(t) == {i \in 1..Len(t) : t[i] = "\n"}
LineOf(t, k) ==
    LET end == CHOOSE i \in LineEnds(t) :
                   Cardinality({j \in LineEnds(t) : j <= i}) = k
        before == {j \in LineEnds(t) : j < end}
        start == IF before = {} THEN 1
                 ELSE (CHOOSE j \in before : \A x \in before : x <= j) + 1
    IN  [i \in 1..(end - start) |-> t[start + i - 1]]

\* No line end inside a speaker or a text of the history.
SingleLineMessages(h) ==
    \A k \in 1..Len(h) :
        /\ \A i \in 1..Len(Chars(h[k].speaker)) : Chars(h[k].speaker)[i] # "\n"
        /\ \A i \in 1..Len(Chars(h[k].message)) : Chars(h[k].message)[i] # "\n"

\* C27: format_conversation_context() returns the placeholder exactly when
\* the history is empty; otherwise its text has, after the
\* header line, one line per message, in history order, each the speaker
\* followed by the message text, none left out and none repeated.
C27_OneLinePerMessage ==
    (last_op = "format_conversation_context") =>
        LET h == GetMessages(state)
        IN  /\ (context = NoMessagesText) <=> (h = <<>>)
            /\ (h # <<>>) =>
                /\ context[Len(context)] = "\n"
                /\ Cardinality(LineEnds(context)) = Len(h) + 1
                /\ \A k \in 1..Len(h) :
                      LineOf(context, k + 1) =
                          <<"-", " ">> \o Chars(h[k].speaker) \o <<":", " ">>
                              \o Chars(h[k].message)

\* What format_conversation_context() does for every history, C27's case of
\* texts of one line included: it returns the placeholder exactly when the
\* history is empty; otherwise its text is the header line followed, for
\* every message in history order, by "- ", the speaker, ": ", the text and
\* a line end, and nothing else, none left out and none repeated; when no
\* speaker and no text has a line end in it that is one line per message.
ContextRendersEveryMessage ==
    (last_op = "format_conversation_context") =>
        LET h == GetMessages(state)
            stop == <<Len(ContextHeader)>>
                        \o LineStops(h, 1, Len(h), Len(ContextHeader))
        IN  /\ (context = NoMessagesText) <=> (h = <<>>)
            /\ (h # <<>>) =>
                /\ Len(context) = stop[Len(h) + 1]
                /\ SubSeq(context, 1, Len(ContextHeader)) = ContextHeader
                /\ \A k \in 1..Len(h) :
                      SubSeq(context, stop[k] + 1, stop[k + 1]) =
                          <<"-", " ">> \o Chars(h[k].speaker) \o <<":", " ">>
                              \o Chars(h[k].message) \o <<"\n">>
                /\ SingleLineMessages(h) =>
                      /\ Cardinality(LineEnds(context)) = Len(h) + 1
                      /\ \A k \in 1..Len(h) :
                            LineOf(context, k + 1) =
                                <<"-", " ">> \o Chars(h[k].speaker)
                                    \o <<":", " ">> \o Chars(h[k].message)

----------------------------------------------------------------------------
\* C28: every ConversationState operation, get_state_dict included, runs
\* while holding the one lock, so at most one operation is inside the state
\* at a time: while disconnect_all() holds the lock no other operation runs.
C28_OneOperationInsideState ==
    (lock_holder # NoHolder) => (last_op = "disconnect_all")

----------------------------------------------------------------------------
\* C29: set_concluded(True) on a state that is already concluded changes
\* nothing: the whole state is as before, is_concluded() is still true and
\* nothing is raised.
C29_SetConcludedIdempotent ==
    (last_op = "set_concluded" /\ IsConcluded(prev) /\ IsConcluded(state))
        => (state = prev /\ ~last_raised)

\* set_concluded(True) was called on a concluded state that holds both
\* handles, a room and a message.
C29_Witness ==
    /\ last_op = "set_concluded"
    /\ IsConcluded(prev)
    /\ IsConcluded(state)
    /\ GetDispatcherSession(prev) # None
    /\ GetDriverSession(prev) # None
    /\ GetRoom(prev) # None
    /\ GetMessages(prev) # <<>>

\* C30: disconnect_all() is idempotent: called again right after a first
\* call, it raises nothing, leaves the state as it is and calls aclose() on
\* no handle, the first call having closed every registered one.
C30_SecondDisconnectClosesNothing ==
    [][ (/\ last_op = "disconnect_all" /\ lock_holder = NoHolder
         /\ last_op' = "disconnect_all")
            => /\ ~last_raised'
               /\ state' = state
               /\ aclose_calls' = aclose_calls
               /\ lock_holder' = NoHolder ]_vars

----------------------------------------------------------------------------
\* C31: when the metadata attached to the joined room is non-empty, entrypoint
\* issues no registry query and takes both configs from the attached text:
\* non-empty metadata with no registry response received means that no query
\* is in flight or pending and the configs are those parsed from it.
C31_AttachedMetadataUsedAsIs ==
    (pc # "idle" /\ responses = <<>> /\ Truthy(room_metadata)) =>
        /\ ~ResolverRunning
        /\ api_client = "none"
        /\ dispatcher_config = ParseMetadata(room_metadata).dispatcher_config
        /\ driver_config = ParseMetadata(room_metadata).driver_config

C31_Witness ==
    /\ pc = "start_disp"
    /\ responses = <<>>
    /\ room_metadata = Str(BlobBoth)
    /\ api_client = "none"
    /\ dispatcher_config = JsonObject([prompt |-> JsonString("P1")])
    /\ driver_config = JsonObject([prompt |-> JsonString("P2")])

\* C39: the registry client entrypoint opened is closed on every path out of
\* the resolver: once the retry loop has been left, by metadata found, by
\* exhaustion or by a query that raised, no client is left open.
C39_RegistryClientClosed ==
    (pc # "idle" /\ ~ResolverRunning) => api_client # "open"

\* C40: the inter-attempt delay is awaited only between attempts: a sleep is
\* in progress only when no metadata has been found and another attempt
\* follows, each sleep so far was followed by one more query, and a
\* resolution makes at most max_retries - 1 sleeps.
C40_DelayOnlyBetweenAttempts ==
    /\ (pc = "retry_sleep") =>
          /\ ~Truthy(room_metadata)
          /\ attempt + 1 < max_retries
          /\ Len(responses) = attempt + 1
    /\ attempt + (IF pc = "retry_sleep" THEN 1 ELSE 0) <= max_retries - 1

\* The fourth and last sleep of a resolution is in progress.
C40_Witness ==
    /\ pc = "retry_sleep"
    /\ attempt = max_retries - 2
    /\ Len(responses) = max_retries - 1
    /\ ~Truthy(room_metadata)

----------------------------------------------------------------------------
\* C38: generate_conversation makes at most 1 + 2 * max_turns generation
\* calls and builds at most 1 + 2 * max_turns turns, and when every LLM call
\* returns it comes to its end, whether or not a turn matches the completion
\* heuristic.
C38_ServiceTerminatesWithinBound ==
    /\ [](/\ llm_calls <= 1 + 2 * max_turns
          /\ Len(conversation) <= 1 + 2 * max_turns)
    /\ (svc_pc \in {"opening_llm", "driver_llm", "dispatcher_llm"})
          ~> (svc_pc \in {"returned", "raised"})

\* A call with the largest max_turns has returned after the most calls and
\* turns it can make: no turn matched the heuristic.
C38_Witness ==
    /\ svc_pc = "returned"
    /\ max_turns = MaxTurnsArg
    /\ llm_calls = 1 + 2 * max_turns
    /\ Len(conversation) = 1 + 2 * max_turns
    /\ \A i \in 1..Len(conversation) :
          conversation[i].text \in {TextGreeting, TextLongThanks}

----------------------------------------------------------------------------
\* C37: frame conditions of ConversationState.  disconnect_all() leaves the
\* whole state as it is, handles included; add_message() changes only the
\* messages; set_concluded() changes only concluded; set_dispatcher_session(h)
\* changes only the dispatcher's handle, which get_dispatcher_session() then
\* returns as h, and likewise for the driver.
C37_FrameConditions ==
    [][ /\ (last_op' = "disconnect_all") => state' = state
        /\ (last_op' = "add_message")
              => state' = [state EXCEPT !.messages = state'.messages]
        /\ (last_op' = "set_concluded")
              => state' = [state EXCEPT !.concluded = state'.concluded]
        /\ (last_op' = "set_dispatcher_session")
              => /\ state' = [state EXCEPT !.dispatcher_session = last_arg']
                 /\ GetDispatcherSession(state') = last_arg'
        /\ (last_op' = "set_driver_session")
              => /\ state' = [state EXCEPT !.driver_session = last_arg']
                 /\ GetDriverSession(state') = last_arg' ]_vars

\* The driver's handle was stored in a concluded state that holds the
\* dispatcher's handle, a room and a message.
C37_Witness ==
    /\ last_op = "set_driver_session"
    /\ last_arg = "driver_session"
    /\ GetDriverSession(prev) = None
    /\ GetDriverSession(state) = "driver_session"
    /\ GetDispatcherSession(state) = "dispatcher_session"
    /\ IsConcluded(state)
    /\ GetRoom(state) # None
    /\ GetMessages(state) # <<>>

----------------------------------------------------------------------------
\* C36: the monitoring loop of a standalone entrypoint always terminates.  A
\* test of the loop condition that finds concluded set leaves the loop, be
\* it made at once after the sleep or after waiting for the lock; the loop
\* is never in a poll after 2 * max_wait polls of half a second; and a loop
\* that polls comes to its end.
C36_MonitorLoopTerminates ==
    /\ [][ /\ (pc = "sa_poll" /\ elapsed' = elapsed + 1 /\ IsConcluded(state))
               => pc' \in {"returned", "sa_head_wait"}
           /\ (pc = "sa_head_wait" /\ pc' # pc /\ IsConcluded(state))
               => pc' = "returned" ]_vars
    /\ [](elapsed <= 2 * max_wait /\ (pc = "sa_poll" => elapsed < 2 * max_wait))
    /\ (pc \in {"sa_poll", "sa_head_wait"}) ~> (pc = "returned")

----------------------------------------------------------------------------
\* C34: in the multi-agent worker every turn generated appends exactly one
\* message and nothing else appends: once the opening turn has succeeded,
\* the history is one longer than turn_count at every position of the loop
\* between two turns and at the loop's exit, whatever the exit reason.
C34_OneMessagePerTurn ==
    (\/ pc \in {"sleep1", "driver_gen", "sleep2", "disp_gen"}
     \/ (pc = "returned"
            /\ exit_reason \in {"concluded", "timeout", "turn_failed"}))
        => Len(GetMessages(state)) = turn_count + 1

\* The loop was left on a failed turn after three turns had been generated.
C34_Witness ==
    /\ pc = "returned"
    /\ exit_reason = "turn_failed"
    /\ turn_count = 3
    /\ Len(GetMessages(state)) = 4

-----------------------------------------------------------------------------
\* C33: in every turn of the worker's alternating loop the context the
\* speaking role's agent is rebuilt from is the one formatted right before
\* that turn's generate_reply(): while the reply is pending it is the header
\* followed by the line of every message appended so far, in history order,
\* and its last line is the other role's latest message.
C33_TurnContextIsCurrent ==
    (pc \in {"driver_gen", "disp_gen"}) =>
        LET h == GetMessages(state)
            stop == <<Len(ContextHeader)>>
                        \o LineStops(h, 1, Len(h), Len(ContextHeader))
        IN  /\ Len(h) = turn_count + 1
            /\ Len(context) = stop[Len(h) + 1]
            /\ SubSeq(context, 1, Len(ContextHeader)) = ContextHeader
            /\ \A k \in 1..Len(h) :
                  SubSeq(context, stop[k] + 1, stop[k + 1]) =
                      <<"-", " ">> \o Chars(h[k].speaker) \o <<":", " ">>
                          \o Chars(h[k].message) \o <<"\n">>
            /\ h[Len(h)].speaker =
                  (IF pc = "driver_gen" THEN DispatcherSpeaker
                   ELSE DriverSpeaker)

\* The dispatcher's second turn is pending: the context holds the greeting,
\* two driver lines and one dispatcher line.
C33_Witness ==
    /\ pc = "disp_gen"
    /\ turn_count = 3
    /\ Len(GetMessages(state)) = 4
    /\ GetMessages(state)[4].speaker = DriverSpeaker
    /\ context = FormatConversationContext(state)

-----------------------------------------------------------------------------
\* What a conversation observes of the state it works on.
Observed(c) ==
    [concluded |-> IsConcluded(GetSharedState(c)),
     dispatcher_session |-> GetDispatcherSession(GetSharedState(c)),
     driver_session |-> GetDriverSession(GetSharedState(c)),
     messages |-> GetMessages(GetSharedState(c))]

\* C32: conversations run at the same time in one process are independent: a
\* step of one conversation (its reset, an appended message, an end signal)
\* leaves the concluded flag, the session handles and the history observed
\* by every other running conversation as they were.
C32_ConversationsIndependent ==
    [][ \A a, b \in Conversations :
            (a # b /\ conv'[a] # conv[a] /\ ConvInConversation(b))
                => Observed(b)' = Observed(b) ]_vars

-----------------------------------------------------------------------------
\* The task is inside a ConversationState operation or waiting for the lock
\* to enter one.
InOperation(t) ==
    task_pc[t] \notin {"idle", "sleeping", "generate_reply", "turn_done",
                       "disconnect_all", "returned"}

\* C35: the state lock never deadlocks: the task that holds the lock never
\* waits for it, a waiting task always waits for a task that holds it, and
\* every task that is inside an operation eventually is out of it, the
\* scheduler polling and both agents signalling in any interleaving, every
\* close returning.
C35_LockNeverDeadlocks ==
    /\ [](\A i \in 1..Len(lock_waiters) : lock_waiters[i] # lock_owner)
    /\ [](lock_waiters # <<>> => lock_owner # "none")
    /\ \A t \in Tasks : InOperation(t) ~> ~InOperation(t)

\* One agent awaits a close inside the lock while the other agent, having
\* signalled too, and the polling scheduler wait for the lock.
C35_Witness ==
    /\ lock_owner \in AgentTasks
    /\ task_pc[lock_owner] \in {"closing_dispatcher", "closing_driver"}
    /\ Len(lock_waiters) = 2
    /\ task_pc["scheduler"] = "is_concluded_wait"
    /\ \E t \in AgentTasks :
          task_pc[t] \in {"set_concluded_wait", "disconnect_all_wait"}

====
